---------------------------- MODULE Spec2Model ----------------------------
(***************************************************************************)
(* Projection-and-taxation pipeline of the retirement planner:             *)
(* Timeline, IncomeProcessor, AccountProcessor, FilingStatusTracker,       *)
(* ProjectionEngine.run and the Social-Security / federal tax functions.   *)
(*                                                                         *)
(* Conventions                                                             *)
(*  - A "YYYY-MM" string is the pair <<year, month>>; every place of the   *)
(*    code that reads such a string parses it with split('-') and int(),   *)
(*    so the pair is what the code computes with.  An absent Optional[str] *)
(*    month (None) is the empty tuple.                                     *)
(*  - A Python float is an exact rational <<n, d>> in lowest terms with    *)
(*    d > 0; rounding of IEEE doubles is not modelled.                     *)
(***************************************************************************)
EXTENDS Integers, Sequences, FiniteSets, TLC

(***************************************************************************)
(* Exact rational arithmetic (stands for Python float arithmetic).        *)
(***************************************************************************)
RECURSIVE GCD(_, _)
GCD(a, b) == IF b = 0 THEN a ELSE GCD(b, a % b)

Abs(x) == IF x < 0 THEN -x ELSE x

Rat(n, d) ==
    LET s == IF d < 0 THEN -1 ELSE 1
        g == GCD(Abs(n), Abs(d))
    IN  IF n = 0 THEN <<0, 1>> ELSE <<(s * n) \div g, (s * d) \div g>>

R(i) == <<i, 1>>
Zero == R(0)
One == R(1)

\* Sums and comparisons go through the least common denominator and products
\* cancel crosswise first, so that intermediate integers stay small.
RAdd(a, b) ==
    LET g == GCD(a[2], b[2])
    IN  Rat(a[1] * (b[2] \div g) + b[1] * (a[2] \div g), (a[2] \div g) * b[2])
RNeg(a) == <<-a[1], a[2]>>
RSub(a, b) == RAdd(a, RNeg(b))
RMul(a, b) ==
    LET g1 == GCD(Abs(a[1]), b[2])
        g2 == GCD(Abs(b[1]), a[2])
    IN  IF a[1] = 0 \/ b[1] = 0 THEN <<0, 1>>
        ELSE Rat((a[1] \div g1) * (b[1] \div g2), (a[2] \div g2) * (b[2] \div g1))
\* Inf (1/0) compares above every rational.
Inf == <<1, 0>>
RLt(a, b) ==
    LET g == IF a[2] = 0 \/ b[2] = 0 THEN 1 ELSE GCD(a[2], b[2])
    IN  a[1] * (b[2] \div g) < b[1] * (a[2] \div g)
RLe(a, b) == ~RLt(b, a)
\* Division by a positive rational.
RDiv(a, b) == RMul(a, <<b[2], b[1]>>)
RMin(a, b) == IF RLe(a, b) THEN a ELSE b
RMax(a, b) == IF RLe(a, b) THEN b ELSE a

RECURSIVE RPow(_, _)
RPow(a, k) == IF k = 0 THEN One ELSE RMul(a, RPow(a, k - 1))

RECURSIVE RSumSeq(_)
RSumSeq(s) == IF Len(s) = 0 THEN Zero ELSE RAdd(Head(s), RSumSeq(Tail(s)))

(***************************************************************************)
(* engine/timeline.py: month comparison primitives.                        *)
(***************************************************************************)
\* Optional values: None is the empty tuple, a present value x is <<x>>
\* (a month, itself a pair, stands for itself).
None == <<>>
Some(x) == <<x>>

YearOf(year_month) == year_month[1]
MonthOf(year_month) == year_month[2]

month_is_before(month1, month2) ==
    IF YearOf(month1) < YearOf(month2) THEN TRUE
    ELSE IF YearOf(month1) > YearOf(month2) THEN FALSE
    ELSE MonthOf(month1) < MonthOf(month2)

month_is_after(month1, month2) ==
    IF YearOf(month1) > YearOf(month2) THEN TRUE
    ELSE IF YearOf(month1) < YearOf(month2) THEN FALSE
    ELSE MonthOf(month1) > MonthOf(month2)

\* current + relativedelta(months=1)
next_month(year_month) ==
    IF MonthOf(year_month) = 12 THEN <<YearOf(year_month) + 1, 1>>
    ELSE <<YearOf(year_month), MonthOf(year_month) + 1>>


(***************************************************************************)
(* State.  One AccountProcessor, one IncomeProcessor, one ProjectionEngine *)
(* run and one tax calculation; each specification below exercises one of  *)
(* them and leaves the others idle.                                        *)
(***************************************************************************)
VARIABLES
    accounts,        \* AccountProcessor.accounts: sequence of InvestmentAccount
    balance,         \* AccountProcessor.states[account_id].balance, by position
    acct_call,       \* the last AccountProcessor.process_month call and its outcome
    streams,         \* IncomeProcessor.streams: sequence of IncomeStream
    income_states,   \* IncomeProcessor.states[stream_id]: current_amount, last_cola_year
    income_call,     \* the last IncomeProcessor.process_month call and its outcome
    cola_log,        \* history: per stream, every change of current_amount
    scenario,        \* ProjectionEngine.scenario (people, filing status, horizon)
    current,         \* Timeline.months: the generator's current month
    monthly_projections, \* ProjectionEngine.run: the list built so far
    run_pc,          \* ProjectionEngine.run: "idle", "loop" or "done"
    tax_in,          \* arguments of the tax functions
    tax_out,         \* their results
    budget,          \* BudgetProcessor.settings and BudgetProcessor.people
    budget_state,    \* BudgetProcessor.state: current_amounts by category position,
                     \* last_inflation_year, survivor_reduction_applied
    budget_call,     \* the last BudgetProcessor.process_month call and its outcome
    budget_log,      \* history: every call that inflated or reduced the amounts
    settings,        \* the scenario's residence_state, standard_deduction_override
                     \* and budget_settings, read by calculate_projection
    pipe_pc,         \* calculate_projection: the stage reached
    tax_summaries,   \* calculate_taxes_for_projection's result
    spending_amounts, \* the spending list built from BudgetProcessor.process_month
    net_income,      \* calculate_net_income_projections: its argument and outcome
    surplus_pass,    \* apply_surplus_to_accounts: its outcome
    annual_summaries, \* AnnualAggregator.aggregate's result
    financial_summary, \* get_financial_summary's result, once called
    deficit_in,      \* arguments of identify_deficit_periods
    deficit_out,     \* its result
    timeline,        \* Timeline: start_month and end_year
    tl_pc,           \* a months() generator: "idle", "iterating" or "exhausted"
    tl_current,      \* the generator's local variable current
    tl_yielded,      \* what the generator has yielded so far
    tl_passes,       \* the sequences yielded by the generators exhausted before
    tl_total,        \* the result of total_months(), once called
    run_returned,    \* the lists returned by the earlier run() calls on this scenario,
                     \* each with the number of runs its engine had completed before
    engine_runs,     \* the number of run() calls the current engine has completed
    runs,            \* two runs side by side, each with its own engine, calculator, processor
    degenerate_in,   \* the routine called with a possibly zero divisor, and its arguments
    degenerate_out,  \* whether it raised, and what it returned
    scenarios_db,    \* api/endpoints/scenarios.py: {user_email: {scenario_id: Scenario}}
    api_response     \* the last response of the API, numbered

acct_vars == <<accounts, balance, acct_call>>
income_vars == <<streams, income_states, income_call, cola_log>>
run_vars == <<scenario, current, monthly_projections, run_pc>>
tax_vars == <<tax_in, tax_out>>
budget_vars == <<budget, budget_state, budget_call, budget_log>>
pipe_vars == <<settings, pipe_pc, tax_summaries, spending_amounts, net_income,
               surplus_pass, annual_summaries, financial_summary>>
deficit_vars == <<deficit_in, deficit_out>>
timeline_vars == <<timeline, tl_pc, tl_current, tl_yielded, tl_passes, tl_total>>
rerun_vars == <<run_returned, engine_runs>>
interleaved_vars == <<runs>>
degenerate_vars == <<degenerate_in, degenerate_out>>
api_vars == <<scenarios_db, api_response>>
extra_vars == <<timeline_vars, rerun_vars, interleaved_vars, degenerate_vars, api_vars>>
later_vars == <<budget_vars, pipe_vars, deficit_vars, extra_vars>>
vars == <<acct_vars, income_vars, run_vars, tax_vars, later_vars>>

(***************************************************************************)
(* models/core.py: InvestmentAccount.  The fields the class declares; a    *)
(* pydantic model raises AttributeError on any other attribute.            *)
(***************************************************************************)
InvestmentAccountFields ==
    {"account_id", "name", "tax_bucket", "starting_balance", "annual_return_rate",
     "monthly_contribution", "contribution_start_month", "contribution_end_month",
     "monthly_withdrawal", "withdrawal_start_month", "withdrawal_end_month",
     "monthly_return_rate"}

HasAttr(field) == field \in InvestmentAccountFields

TaxBuckets == {"taxable", "tax_deferred", "roth"}

(***************************************************************************)
(* engine/accounts.py: AccountState.                                       *)
(***************************************************************************)
should_contribute(account, year_month) ==
    IF account.contribution_start_month # None
       /\ month_is_before(year_month, account.contribution_start_month)
    THEN FALSE
    ELSE IF account.contribution_end_month # None
            /\ month_is_after(year_month, account.contribution_end_month)
    THEN FALSE
    ELSE TRUE

should_withdraw(account, year_month) ==
    IF account.withdrawal_start_month # None
       /\ month_is_before(year_month, account.withdrawal_start_month)
    THEN FALSE
    ELSE IF account.withdrawal_end_month # None
            /\ month_is_after(year_month, account.withdrawal_end_month)
    THEN FALSE
    ELSE TRUE

apply_contribution(account, bal, year_month) ==
    IF should_contribute(account, year_month)
    THEN RAdd(bal, account.monthly_contribution)
    ELSE bal

\* Mutant: the balance is not clamped when the withdrawal exceeds it.
apply_withdrawal_noclamp(account, bal, year_month) ==
    IF ~should_withdraw(account, year_month)
    THEN [balance |-> bal, withdrawal |-> Zero]
    ELSE [balance |-> RSub(bal, account.monthly_withdrawal),
          withdrawal |-> account.monthly_withdrawal]

\* Mutant: the configured withdrawal is reported even when less was available.
apply_withdrawal_reports_configured(account, bal, year_month) ==
    IF ~should_withdraw(account, year_month)
    THEN [balance |-> bal, withdrawal |-> Zero]
    ELSE LET reduced == RSub(bal, account.monthly_withdrawal)
         IN  [balance |-> IF RLt(reduced, Zero) THEN Zero ELSE reduced,
              withdrawal |-> account.monthly_withdrawal]

\* Returns the new balance and the withdrawal reported to the caller.
apply_withdrawal(account, bal, year_month) ==
    IF ~should_withdraw(account, year_month)
    THEN [balance |-> bal, withdrawal |-> Zero]
    ELSE LET withdrawal == account.monthly_withdrawal
             reduced == RSub(bal, withdrawal)
         IN  IF RLt(reduced, Zero)
             THEN [balance |-> Zero, withdrawal |-> RAdd(withdrawal, reduced)]
             ELSE [balance |-> reduced, withdrawal |-> withdrawal]

apply_growth(account, bal) == RMul(bal, RAdd(One, account.monthly_return_rate))

(***************************************************************************)
(* engine/accounts.py: AccountProcessor.                                   *)
(***************************************************************************)
\* The loop reads account.receives_surplus of the first account; the class
\* declares no such field, so with any account present the read raises
\* AttributeError.  Lines 181-191 run only when the read succeeds.
deposit_surplus(accs, bal, surplus_amount) ==
    IF Len(accs) = 0
    THEN [raised |-> FALSE, balance |-> bal]
    ELSE IF ~HasAttr("receives_surplus")
    THEN [raised |-> TRUE, balance |-> bal]
    ELSE LET flagged == {i \in 1..Len(accs) : accs[i].receives_surplus}
         IN  IF flagged = {}
             THEN [raised |-> FALSE, balance |-> bal]
             ELSE LET k == CHOOSE i \in flagged : \A j \in flagged : i <= j
                      added == RAdd(bal[k], surplus_amount)
                  IN  [raised |-> FALSE,
                       balance |-> [bal EXCEPT ![k] =
                                      IF RLt(added, Zero) THEN Zero ELSE added]]

\* raised: the call ended in an exception (after steps 1 and 2 changed state);
\* balance: AccountState.balance of every account when the call ends;
\* withdrawals, balances: the two dictionaries returned (empty when raised).
account_process_month(accs, bal, year_month, prior_month_surplus) ==
    LET idx == 1..Len(accs)
        contributed == [i \in idx |-> apply_contribution(accs[i], bal[i], year_month)]
        withdrawn == [i \in idx |-> apply_withdrawal(accs[i], contributed[i], year_month)]
        after_w == [i \in idx |-> withdrawn[i].balance]
        dep == IF prior_month_surplus # Zero
               THEN deposit_surplus(accs, after_w, prior_month_surplus)
               ELSE [raised |-> FALSE, balance |-> after_w]
        grown == [i \in idx |-> apply_growth(accs[i], dep.balance[i])]
    IN  IF dep.raised
        THEN [raised |-> TRUE, balance |-> after_w,
              withdrawals |-> <<>>, balances |-> <<>>]
        ELSE [raised |-> FALSE, balance |-> grown,
              withdrawals |-> [i \in idx |-> withdrawn[i].withdrawal],
              balances |-> grown]

get_total_balance(bal) == RSumSeq(bal)

(***************************************************************************)
(* engine/income.py: IncomeState.  A state is the record                   *)
(* [current_amount, last_cola_year].                                       *)
(***************************************************************************)

\* IncomeState.__init__
IncomeStateInit(stream) ==
    [current_amount |-> stream.monthly_amount_at_start, last_cola_year |-> None]

\* Mutant: the year of the last COLA is not checked.
apply_cola_if_due_every_call(stream, st, year_month, month_num) ==
    IF month_num # stream.cola_month THEN st
    ELSE IF RLt(Zero, stream.cola_percent_annual)
    THEN [current_amount |->
             RMul(st.current_amount, RAdd(One, stream.cola_percent_annual)),
          last_cola_year |-> Some(YearOf(year_month))]
    ELSE st

apply_cola_if_due(stream, st, year_month, month_num) ==
    IF month_num # stream.cola_month THEN st
    ELSE LET current_year == YearOf(year_month)
         IN  IF st.last_cola_year = Some(current_year) THEN st
             ELSE IF RLt(Zero, stream.cola_percent_annual)
             THEN [current_amount |->
                      RMul(st.current_amount, RAdd(One, stream.cola_percent_annual)),
                   last_cola_year |-> Some(current_year)]
             ELSE st

(***************************************************************************)
(* engine/income.py: IncomeProcessor.                                      *)
(***************************************************************************)
\* Mutant: the amount is reported before the COLA of the month is applied.
income_process_stream_reports_first(stream, st, year_month, month_num) ==
    IF month_is_before(year_month, stream.start_month)
    THEN [state |-> st, income |-> Zero]
    ELSE IF stream.end_month # None /\ month_is_after(year_month, stream.end_month)
    THEN [state |-> st, income |-> Zero]
    ELSE [state |-> apply_cola_if_due(stream, st, year_month, month_num),
          income |-> st.current_amount]

\* Mutant: the COLA is applied before the active window is looked at.
income_process_stream_cola_first(stream, st, year_month, month_num) ==
    LET after == apply_cola_if_due(stream, st, year_month, month_num)
    IN  IF month_is_before(year_month, stream.start_month)
        THEN [state |-> after, income |-> Zero]
        ELSE IF stream.end_month # None /\ month_is_after(year_month, stream.end_month)
        THEN [state |-> after, income |-> Zero]
        ELSE [state |-> after, income |-> after.current_amount]

\* One stream's pass through the loop body of process_month: its state after
\* the call and the amount entered in income_by_stream.
income_process_stream(stream, st, year_month, month_num) ==
    IF month_is_before(year_month, stream.start_month)
    THEN [state |-> st, income |-> Zero]
    ELSE IF stream.end_month # None /\ month_is_after(year_month, stream.end_month)
    THEN [state |-> st, income |-> Zero]
    ELSE LET after == apply_cola_if_due(stream, st, year_month, month_num)
         IN  [state |-> after, income |-> after.current_amount]

income_process_month(strs, sts, year_month, month_num) ==
    LET each == [i \in 1..Len(strs) |->
                    income_process_stream(strs[i], sts[i], year_month, month_num)]
    IN  [states |-> [i \in 1..Len(strs) |-> each[i].state],
         income_by_stream |-> [i \in 1..Len(strs) |-> each[i].income]]

get_total_income(income_by_stream) == RSumSeq(income_by_stream)

(***************************************************************************)
(* models/core.py: Person.death_year_month (computed field).  A person is  *)
(* [person_id, birth_year, birth_month, life_expectancy_years].            *)
(***************************************************************************)
death_year_month(person) ==
    IF person.life_expectancy_years = None THEN None
    ELSE <<person.birth_year + person.life_expectancy_years[1], person.birth_month>>

(***************************************************************************)
(* engine/projector.py: FilingStatusTracker.                               *)
(***************************************************************************)
FilingStatuses ==
    {"single", "married_filing_jointly", "married_filing_separately",
     "head_of_household"}

\* FilingStatusTracker.__init__: the death dates of the people who have one.
death_dates(people) ==
    SelectSeq([i \in 1..Len(people) |-> death_year_month(people[i])],
              LAMBDA d : d # None)

RECURSIVE any_death_before_year(_, _)
any_death_before_year(dates, current_year) ==
    IF Len(dates) = 0 THEN FALSE
    ELSE IF current_year > YearOf(Head(dates)) THEN TRUE
    ELSE any_death_before_year(Tail(dates), current_year)

\* Mutant: the switch to single happens in the month after the death.
get_status_immediate(people, initial_status, year_month) ==
    IF initial_status # "married_filing_jointly" THEN initial_status
    ELSE IF Len(people) < 2 THEN initial_status
    ELSE IF \E i \in 1..Len(death_dates(people)) :
               month_is_after(year_month, death_dates(people)[i])
    THEN "single"
    ELSE "married_filing_jointly"

\* Mutant: only the first person's death date is looked at.
get_status_first_person(people, initial_status, year_month) ==
    IF initial_status # "married_filing_jointly" THEN initial_status
    ELSE IF Len(people) < 2 THEN initial_status
    ELSE IF death_year_month(people[1]) # None
            /\ YearOf(year_month) > YearOf(death_year_month(people[1]))
    THEN "single"
    ELSE "married_filing_jointly"

get_status(people, initial_status, year_month) ==
    IF initial_status # "married_filing_jointly" THEN initial_status
    ELSE IF Len(people) < 2 THEN initial_status
    ELSE IF any_death_before_year(death_dates(people), YearOf(year_month))
    THEN "single"
    ELSE "married_filing_jointly"

(***************************************************************************)
(* engine/timeline.py: Timeline.  start_date is the first day of the start *)
(* month, end_date is December 31 of end_year.                             *)
(***************************************************************************)
\* current <= self.end_date, current being the first day of a month
\* Mutant: the loop stops at the end of the year before end_year.
timeline_continues_before_end_year(cur, end_year) == YearOf(cur) < end_year

timeline_continues(cur, end_year) ==
    \/ YearOf(cur) < end_year
    \/ YearOf(cur) = end_year /\ MonthOf(cur) <= 12

\* Timeline.total_months: the count of a loop over self.months(), from cur on.
RECURSIVE count_months(_, _)
count_months(cur, end_year) ==
    IF timeline_continues(cur, end_year) THEN 1 + count_months(next_month(cur), end_year)
    ELSE 0

total_months(start_month, end_year) == count_months(start_month, end_year)

(***************************************************************************)
(* engine/accounts.py: grouping by tax bucket.  A dictionary keyed by the  *)
(* buckets that occur among the accounts.                                  *)
(***************************************************************************)
RECURSIVE RSumOver(_, _)
RSumOver(f, S) ==
    IF S = {} THEN Zero
    ELSE LET x == CHOOSE y \in S : TRUE
         IN  RAdd(f[x], RSumOver(f, S \ {x}))

group_by_tax_bucket(accs, amounts) ==
    [b \in {accs[i].tax_bucket : i \in 1..Len(accs)} |->
        RSumOver(amounts, {i \in 1..Len(accs) : accs[i].tax_bucket = b})]

\* Mutant: the buckets add up the starting balances, not the current ones.
get_balances_by_tax_bucket_at_start(accs, bal) ==
    group_by_tax_bucket(accs, [i \in 1..Len(accs) |-> accs[i].starting_balance])

get_balances_by_tax_bucket(accs, bal) == group_by_tax_bucket(accs, bal)

get_withdrawals_by_tax_bucket(accs, withdrawals_by_account) ==
    group_by_tax_bucket(accs, withdrawals_by_account)

(***************************************************************************)
(* engine/projector.py: ProjectionEngine.run, one iteration of its loop.   *)
(* The result holds the MonthlyProjection appended and the processors'     *)
(* states after the iteration.                                             *)
(***************************************************************************)
run_iteration(scn, strs, sts, accs, bal, year_month, month_num) ==
    LET current_filing_status == get_status(scn.people, scn.filing_status, year_month)
        inc == income_process_month(strs, sts, year_month, month_num)
        total_income == get_total_income(inc.income_by_stream)
        acc == account_process_month(accs, bal, year_month, Zero)
        total_withdrawals == RSumSeq(acc.withdrawals)
        total_investments == get_total_balance(acc.balance)
        total_gross_cashflow == RAdd(total_income, total_withdrawals)
    IN  [income_states |-> inc.states,
         balance |-> acc.balance,
         projection |->
            [month |-> year_month,
             income_by_stream |-> inc.income_by_stream,
             withdrawals_by_account |-> acc.withdrawals,
             withdrawals_by_tax_bucket |->
                 get_withdrawals_by_tax_bucket(accs, acc.withdrawals),
             balances_by_account |-> acc.balances,
             balances_by_tax_bucket |-> get_balances_by_tax_bucket(accs, acc.balance),
             total_investments |-> total_investments,
             total_gross_cashflow |-> total_gross_cashflow,
             filing_status |-> current_filing_status]]

(***************************************************************************)
(* tax/social_security.py.                                                 *)
(***************************************************************************)
SSA_THRESHOLDS ==
    [single |-> [base |-> R(25000), max |-> R(34000)],
     married_filing_jointly |-> [base |-> R(32000), max |-> R(44000)],
     married_filing_separately |-> [base |-> R(0), max |-> R(0)],
     head_of_household |-> [base |-> R(25000), max |-> R(34000)]]

Half == Rat(1, 2)
EightyFivePercent == Rat(85, 100)

calculate_provisional_income(ssa_income, other_ordinary_income, tax_exempt_interest) ==
    RAdd(RAdd(other_ordinary_income, tax_exempt_interest), RMul(Half, ssa_income))

\* Mutant: the top tier is not capped at 85% of the benefits.
calculate_taxable_ssa_uncapped(ssa_income, other_ordinary_income, filing_status, tax_exempt_interest) ==
    LET thresholds == SSA_THRESHOLDS[filing_status]
        provisional_income ==
            calculate_provisional_income(ssa_income, other_ordinary_income,
                                         tax_exempt_interest)
    IN  IF RLe(ssa_income, Zero) THEN Zero
        ELSE IF RLe(provisional_income, thresholds.base) THEN Zero
        ELSE IF RLe(provisional_income, thresholds.max)
        THEN RMin(RMul(Half, RSub(provisional_income, thresholds.base)),
                  RMul(Half, ssa_income))
        ELSE RAdd(RMul(Half, RSub(thresholds.max, thresholds.base)),
                  RMul(EightyFivePercent, RSub(provisional_income, thresholds.max)))

calculate_taxable_ssa(ssa_income, other_ordinary_income, filing_status, tax_exempt_interest) ==
    IF RLe(ssa_income, Zero) THEN Zero
    ELSE
    LET thresholds ==
            IF filing_status \in DOMAIN SSA_THRESHOLDS
            THEN SSA_THRESHOLDS[filing_status] ELSE SSA_THRESHOLDS["single"]
        base_threshold == thresholds.base
        max_threshold == thresholds.max
        provisional_income ==
            calculate_provisional_income(ssa_income, other_ordinary_income,
                                         tax_exempt_interest)
    IN  IF RLe(provisional_income, base_threshold) THEN Zero
        ELSE IF RLe(provisional_income, max_threshold)
        THEN LET excess_over_base == RSub(provisional_income, base_threshold)
                 taxable_amount == RMul(Half, excess_over_base)
             IN  RMin(taxable_amount, RMul(Half, ssa_income))
        ELSE LET amount_in_50_percent_range == RSub(max_threshold, base_threshold)
                 fifty_percent_portion == RMul(Half, amount_in_50_percent_range)
                 excess_over_max == RSub(provisional_income, max_threshold)
                 eighty_five_percent_portion ==
                     RMul(EightyFivePercent, excess_over_max)
                 total_taxable ==
                     RAdd(fifty_percent_portion, eighty_five_percent_portion)
             IN  RMin(total_taxable, RMul(EightyFivePercent, ssa_income))

(***************************************************************************)
(* tax/federal.py.  A bracket is <<upper_limit, rate>>; the last upper     *)
(* limit is float('inf').                                                  *)
(***************************************************************************)
Pct(n) == Rat(n, 100)

FEDERAL_TAX_BRACKETS_2024 ==
    [single |->
        <<<<R(11600), Pct(10)>>, <<R(47150), Pct(12)>>, <<R(100525), Pct(22)>>,
          <<R(191950), Pct(24)>>, <<R(243725), Pct(32)>>, <<R(609350), Pct(35)>>,
          <<Inf, Pct(37)>>>>,
     married_filing_jointly |->
        <<<<R(23200), Pct(10)>>, <<R(94300), Pct(12)>>, <<R(201050), Pct(22)>>,
          <<R(383900), Pct(24)>>, <<R(487450), Pct(32)>>, <<R(731200), Pct(35)>>,
          <<Inf, Pct(37)>>>>,
     married_filing_separately |->
        <<<<R(11600), Pct(10)>>, <<R(47150), Pct(12)>>, <<R(100525), Pct(22)>>,
          <<R(191950), Pct(24)>>, <<R(243725), Pct(32)>>, <<R(365600), Pct(35)>>,
          <<Inf, Pct(37)>>>>,
     head_of_household |->
        <<<<R(16550), Pct(10)>>, <<R(63100), Pct(12)>>, <<R(100500), Pct(22)>>,
          <<R(191950), Pct(24)>>, <<R(243700), Pct(32)>>, <<R(609350), Pct(35)>>,
          <<Inf, Pct(37)>>>>]

STANDARD_DEDUCTION_2024 ==
    [single |-> R(14600), married_filing_jointly |-> R(29200),
     married_filing_separately |-> R(14600), head_of_household |-> R(21900)]

get_standard_deduction(filing_status, override) ==
    IF override # None THEN override[1]
    ELSE IF filing_status \in DOMAIN STANDARD_DEDUCTION_2024
    THEN STANDARD_DEDUCTION_2024[filing_status]
    ELSE STANDARD_DEDUCTION_2024["single"]

calculate_agi(ordinary_income, taxable_ssa_income, capital_gains, adjustments) ==
    RSub(RAdd(RAdd(ordinary_income, taxable_ssa_income), capital_gains), adjustments)

calculate_taxable_income(agi, filing_status, standard_deduction_override) ==
    LET deduction == get_standard_deduction(filing_status, standard_deduction_override)
        taxable == RSub(agi, deduction)
    IN  RMax(Zero, taxable)

federal_brackets(filing_status) ==
    IF filing_status \in DOMAIN FEDERAL_TAX_BRACKETS_2024
    THEN FEDERAL_TAX_BRACKETS_2024[filing_status]
    ELSE FEDERAL_TAX_BRACKETS_2024["single"]

\* The for loop shared by calculate_federal_tax and get_tax_bracket_breakdown:
\* the list of per-bracket records, in bracket order, up to the break.
RECURSIVE walk_brackets(_, _, _)
walk_brackets(brackets, taxable_income, previous_limit) ==
    IF Len(brackets) = 0 THEN <<>>
    ELSE IF RLe(taxable_income, previous_limit) THEN <<>>
    ELSE LET upper_limit == Head(brackets)[1]
             rate == Head(brackets)[2]
             amount_in_bracket ==
                 IF RLe(taxable_income, upper_limit)
                 THEN RSub(taxable_income, previous_limit)
                 ELSE RSub(upper_limit, previous_limit)
             tax_in_bracket == RMul(amount_in_bracket, rate)
         IN  <<[lower_limit |-> previous_limit, upper_limit |-> upper_limit,
                rate |-> rate, amount_in_bracket |-> amount_in_bracket,
                tax_in_bracket |-> tax_in_bracket]>>
             \o walk_brackets(Tail(brackets), taxable_income, upper_limit)

\* Mutant: every bracket is taxed on the income up to its upper limit, not on
\* the part above the previous limit.
RECURSIVE accumulate_tax_from_zero(_, _, _, _)
accumulate_tax_from_zero(brackets, taxable_income, previous_limit, total_tax) ==
    IF Len(brackets) = 0 THEN total_tax
    ELSE IF RLe(taxable_income, previous_limit) THEN total_tax
    ELSE LET upper_limit == Head(brackets)[1]
             amount_in_bracket ==
                 IF RLe(taxable_income, upper_limit) THEN taxable_income
                 ELSE upper_limit
         IN  accumulate_tax_from_zero(Tail(brackets), taxable_income, upper_limit,
                 RAdd(total_tax, RMul(amount_in_bracket, Head(brackets)[2])))

\* calculate_federal_tax's loop: total_tax accumulated bracket by bracket.
RECURSIVE accumulate_tax(_, _, _, _)
accumulate_tax(brackets, taxable_income, previous_limit, total_tax) ==
    IF Len(brackets) = 0 THEN total_tax
    ELSE IF RLe(taxable_income, previous_limit) THEN total_tax
    ELSE LET upper_limit == Head(brackets)[1]
             rate == Head(brackets)[2]
             amount_in_bracket ==
                 IF RLe(taxable_income, upper_limit)
                 THEN RSub(taxable_income, previous_limit)
                 ELSE RSub(upper_limit, previous_limit)
             tax_in_bracket == RMul(amount_in_bracket, rate)
         IN  accumulate_tax(Tail(brackets), taxable_income, upper_limit,
                            RAdd(total_tax, tax_in_bracket))

calculate_federal_tax(taxable_income, filing_status) ==
    IF RLe(taxable_income, Zero) THEN Zero
    ELSE accumulate_tax(federal_brackets(filing_status), taxable_income, Zero, Zero)

get_tax_bracket_breakdown(taxable_income, filing_status) ==
    IF RLe(taxable_income, Zero) THEN <<>>
    ELSE walk_brackets(federal_brackets(filing_status), taxable_income, Zero)

(***************************************************************************)
(* models/budget.py: StateTaxConfig.  State codes are upper case:          *)
(* GlobalSettings.validate_state stores residence_state.upper().           *)
(***************************************************************************)
NO_TAX_STATES == {"AK", "FL", "NV", "NH", "SD", "TN", "TX", "WA", "WY"}

Mil(n) == Rat(n, 1000)

\* The California rates, bracket by bracket; a bracket is <<threshold, rate>>.
CaliforniaBrackets(t1, t2, t3, t4, t5, t6, t7, t8, t9) ==
    <<<<R(t1), Mil(10)>>, <<R(t2), Mil(20)>>, <<R(t3), Mil(40)>>, <<R(t4), Mil(60)>>,
      <<R(t5), Mil(80)>>, <<R(t6), Mil(93)>>, <<R(t7), Mil(103)>>, <<R(t8), Mil(113)>>,
      <<R(t9), Mil(123)>>, <<Inf, Mil(133)>>>>

PROGRESSIVE_BRACKETS ==
    [CA |->
        [single |->
            CaliforniaBrackets(10099, 23942, 37788, 52455, 66295, 338639, 406364,
                               677275, 1000000),
         married_filing_jointly |->
            CaliforniaBrackets(20198, 47884, 75576, 104910, 132590, 677278, 812728,
                               1000000, 1354550),
         head_of_household |->
            CaliforniaBrackets(20212, 47887, 61730, 76343, 96920, 494503, 592005,
                               1000000, 1016644),
         married_filing_separately |->
            CaliforniaBrackets(10099, 23942, 37788, 52455, 66295, 338639, 406364,
                               500000, 677275)]]

FLAT_RATES ==
    ("AZ" :> Rat(250, 10000)) @@ ("CO" :> Rat(440, 10000)) @@ ("IL" :> Rat(495, 10000))
    @@ ("IN" :> Rat(323, 10000)) @@ ("MA" :> Rat(500, 10000)) @@ ("MI" :> Rat(425, 10000))
    @@ ("NC" :> Rat(475, 10000)) @@ ("PA" :> Rat(307, 10000)) @@ ("UT" :> Rat(485, 10000))

\* The 5% fallback of get_state_rate.
DefaultStateRate == Rat(5, 100)

has_progressive_brackets(state_code) == state_code \in DOMAIN PROGRESSIVE_BRACKETS

\* None when the state has no brackets; the single table when the state has none
\* for the filing status.
get_progressive_brackets(state_code, filing_status) ==
    IF state_code \notin DOMAIN PROGRESSIVE_BRACKETS THEN None
    ELSE LET state_brackets == PROGRESSIVE_BRACKETS[state_code]
         IN  IF filing_status \in DOMAIN state_brackets
             THEN state_brackets[filing_status] ELSE state_brackets["single"]

get_state_rate(state_code) ==
    IF state_code \in NO_TAX_STATES THEN Zero
    ELSE IF state_code \in DOMAIN FLAT_RATES THEN FLAT_RATES[state_code]
    ELSE DefaultStateRate

is_no_tax_state(state_code) == state_code \in NO_TAX_STATES

(***************************************************************************)
(* tax/state.py.                                                           *)
(***************************************************************************)
\* calculate_progressive_tax's loop.
RECURSIVE progressive_tax_loop(_, _, _, _)
progressive_tax_loop(brackets, income, previous_threshold, tax) ==
    IF Len(brackets) = 0 THEN tax
    ELSE IF RLe(income, previous_threshold) THEN tax
    ELSE LET threshold == Head(brackets)[1]
             rate == Head(brackets)[2]
             taxable_in_bracket == RSub(RMin(income, threshold), previous_threshold)
         IN  progressive_tax_loop(Tail(brackets), income, threshold,
                                  RAdd(tax, RMul(taxable_in_bracket, rate)))

calculate_progressive_tax(income, brackets) ==
    IF RLe(income, Zero) \/ Len(brackets) = 0 THEN Zero
    ELSE progressive_tax_loop(brackets, income, Zero, Zero)

calculate_state_tax(agi, residence_state, filing_status) ==
    IF RLe(agi, Zero) THEN Zero
    ELSE IF is_no_tax_state(residence_state) THEN Zero
    ELSE LET brackets ==
                 IF has_progressive_brackets(residence_state)
                 THEN get_progressive_brackets(residence_state, filing_status)
                 ELSE None
         IN  IF brackets # None
             THEN calculate_progressive_tax(agi, brackets)
             ELSE RMul(agi, get_state_rate(residence_state))

\* The filing_status parameter's default value.
StateTaxDefaultFilingStatus == "single"

(***************************************************************************)
(* tax/federal.py: calculate_effective_tax_rate.                           *)
(***************************************************************************)
calculate_effective_tax_rate(total_tax, agi) ==
    IF RLe(agi, Zero) THEN Zero ELSE RDiv(total_tax, agi)

\* tax/federal.py: estimate_monthly_federal_tax.
estimate_monthly_federal_tax(annual_tax, months_in_year) ==
    IF months_in_year <= 0 THEN Zero ELSE RMul(annual_tax, Rat(1, months_in_year))

\* tax/state.py: estimate_monthly_state_tax.
estimate_monthly_state_tax(annual_tax, months_in_year) ==
    IF months_in_year <= 0 THEN Zero ELSE RMul(annual_tax, Rat(1, months_in_year))

\* TaxCalculator.estimate_monthly_taxes: the two divisions are not guarded; a
\* float divided by the int 0 raises ZeroDivisionError.
estimate_monthly_taxes(annual_federal_tax, annual_state_tax, months_in_year) ==
    IF months_in_year = 0 THEN [raised |-> TRUE, value |-> None]
    ELSE [raised |-> FALSE,
          value |-> <<RMul(annual_federal_tax, Rat(1, months_in_year)),
                      RMul(annual_state_tax, Rat(1, months_in_year))>>]

(***************************************************************************)
(* tax/calculator.py: TaxCalculator.  calc is the calculator object:       *)
(* filing_status, residence_state, standard_deduction_override.            *)
(***************************************************************************)
TaxCalculatorInit(filing_status, residence_state, standard_deduction_override) ==
    [filing_status |-> filing_status, residence_state |-> residence_state,
     standard_deduction_override |-> standard_deduction_override]

\* The state tax is computed by calculate_state_tax(agi, self.residence_state):
\* the call passes no filing status.
calculate_annual_taxes(calc, annual_ssa_income, annual_other_income, tax_exempt_interest) ==
    LET taxable_ssa ==
            calculate_taxable_ssa(annual_ssa_income, annual_other_income,
                                  calc.filing_status, tax_exempt_interest)
        agi == calculate_agi(annual_other_income, taxable_ssa, Zero, Zero)
        standard_deduction ==
            get_standard_deduction(calc.filing_status, calc.standard_deduction_override)
        taxable_income ==
            calculate_taxable_income(agi, calc.filing_status,
                                     calc.standard_deduction_override)
        federal_tax == calculate_federal_tax(taxable_income, calc.filing_status)
        state_tax ==
            calculate_state_tax(agi, calc.residence_state, StateTaxDefaultFilingStatus)
        total_tax == RAdd(federal_tax, state_tax)
    IN  [year |-> 0,
         total_ssa_income |-> annual_ssa_income,
         taxable_ssa_income |-> taxable_ssa,
         other_ordinary_income |-> annual_other_income,
         agi |-> agi,
         standard_deduction |-> standard_deduction,
         taxable_income |-> taxable_income,
         federal_tax |-> federal_tax,
         state_tax |-> state_tax,
         total_tax |-> total_tax,
         effective_tax_rate |-> calculate_effective_tax_rate(total_tax, agi)]

\* sorted(by_year.keys()) for the years of a list of records with a month.
RECURSIVE SortedSeq(_)
SortedSeq(S) ==
    IF S = {} THEN <<>>
    ELSE LET least == CHOOSE x \in S : \A y \in S : x <= y
         IN  <<least>> \o SortedSeq(S \ {least})

YearsOf(projections) ==
    SortedSeq({YearOf(projections[k].month) : k \in 1..Len(projections)})

\* by_year[year]: the records of the year, in the order of the list.
RECURSIVE ProjectionsOfYear(_, _)
ProjectionsOfYear(projections, year) ==
    IF Len(projections) = 0 THEN <<>>
    ELSE (IF YearOf(Head(projections).month) = year THEN <<Head(projections)>> ELSE <<>>)
         \o ProjectionsOfYear(Tail(projections), year)

\* Sum over the months of a year of the income of the streams selected.
RECURSIVE SumIncomeOfStreams(_, _)
SumIncomeOfStreams(year_projections, ids) ==
    IF Len(year_projections) = 0 THEN Zero
    ELSE RAdd(RSumOver(Head(year_projections).income_by_stream,
                       ids \cap DOMAIN Head(year_projections).income_by_stream),
              SumIncomeOfStreams(Tail(year_projections), ids))

\* Sum over the months of a year of sum(projection.withdrawals_by_account.values()).
RECURSIVE SumAllWithdrawals(_)
SumAllWithdrawals(year_projections) ==
    IF Len(year_projections) = 0 THEN Zero
    ELSE RAdd(RSumSeq(Head(year_projections).withdrawals_by_account),
              SumAllWithdrawals(Tail(year_projections)))

\* Mutant: the calculator keeps the year's filing status.
tax_year_body_unrestored(calc, year_projections, income_streams, year) ==
    LET ssa_stream_ids ==
            {i \in 1..Len(income_streams) : income_streams[i].type = "social_security"}
        other_ids == (1..Len(income_streams)) \ ssa_stream_ids
        annual_ssa_income == SumIncomeOfStreams(year_projections, ssa_stream_ids)
        annual_other_income ==
            RAdd(SumIncomeOfStreams(year_projections, other_ids),
                 SumAllWithdrawals(year_projections))
        last_month == year_projections[Len(year_projections)]
        year_filing_status ==
            IF last_month.filing_status # "" THEN last_month.filing_status
            ELSE calc.filing_status
        updated == [calc EXCEPT !.filing_status = year_filing_status]
        tax_summary ==
            calculate_annual_taxes(updated, annual_ssa_income, annual_other_income, Zero)
    IN  [calculator |-> updated,
         tax_summary |-> [tax_summary EXCEPT !.year = year]]

\* The body of the loop over the years: the calculator object after it and the
\* TaxSummary appended.  self.filing_status is set to the year's status for the
\* call of calculate_annual_taxes and set back to original_status after it.
tax_year_body(calc, year_projections, income_streams, year) ==
    LET ssa_stream_ids ==
            {i \in 1..Len(income_streams) : income_streams[i].type = "social_security"}
        other_ids == (1..Len(income_streams)) \ ssa_stream_ids
        annual_ssa_income == SumIncomeOfStreams(year_projections, ssa_stream_ids)
        annual_other_income ==
            RAdd(SumIncomeOfStreams(year_projections, other_ids),
                 SumAllWithdrawals(year_projections))
        last_month == year_projections[Len(year_projections)]
        year_filing_status ==
            IF last_month.filing_status # "" THEN last_month.filing_status
            ELSE calc.filing_status
        original_status == calc.filing_status
        updated == [calc EXCEPT !.filing_status = year_filing_status]
        tax_summary ==
            calculate_annual_taxes(updated, annual_ssa_income, annual_other_income, Zero)
        restored == [updated EXCEPT !.filing_status = original_status]
    IN  [calculator |-> restored,
         tax_summary |-> [tax_summary EXCEPT !.year = year]]

\* The TaxSummary the body of the loop appends.
tax_summary_of_year(calc, year_projections, income_streams, year) ==
    LET ssa_stream_ids ==
            {i \in 1..Len(income_streams) : income_streams[i].type = "social_security"}
        other_ids == (1..Len(income_streams)) \ ssa_stream_ids
        annual_ssa_income == SumIncomeOfStreams(year_projections, ssa_stream_ids)
        annual_other_income ==
            RAdd(SumIncomeOfStreams(year_projections, other_ids),
                 SumAllWithdrawals(year_projections))
        last_month == year_projections[Len(year_projections)]
        year_filing_status ==
            IF last_month.filing_status # "" THEN last_month.filing_status
            ELSE calc.filing_status
        tax_summary ==
            calculate_annual_taxes([calc EXCEPT !.filing_status = year_filing_status],
                                   annual_ssa_income, annual_other_income, Zero)
    IN  [tax_summary EXCEPT !.year = year]

calculate_taxes_from_monthly_projections(calc, projections, income_streams) ==
    LET years == YearsOf(projections)
    IN  [k \in 1..Len(years) |->
            tax_summary_of_year(calc, ProjectionsOfYear(projections, years[k]),
                                income_streams, years[k])]

calculate_taxes_for_projection(projections, income_streams, filing_status, residence_state, standard_deduction_override) ==
    calculate_taxes_from_monthly_projections(
        TaxCalculatorInit(filing_status, residence_state, standard_deduction_override),
        projections, income_streams)

(***************************************************************************)
(* budget/inflation.py: BudgetState and BudgetProcessor.  current_amounts  *)
(* is keyed by the positions of the included categories (category names    *)
(* are unique: BudgetSettings.validate_categories).                        *)
(***************************************************************************)
CategoryTypes == {"fixed", "flexible"}
SurvivorReductionModes == {"flex_only", "all"}

\* BudgetState.__init__
BudgetStateInit(budget_settings) ==
    [current_amounts |->
        [i \in {j \in 1..Len(budget_settings.categories) :
                    budget_settings.categories[j].include} |->
            budget_settings.categories[i].monthly_amount],
     last_inflation_year |-> None,
     survivor_reduction_applied |-> FALSE]

\* Mutant: the year of the last inflation is not checked.
apply_inflation_if_due_every_call(budget_settings, st, year_month, month_num) ==
    IF month_num # 1 THEN st
    ELSE LET inflation_rate == budget_settings.inflation_annual_percent
         IN  IF RLt(Zero, inflation_rate)
             THEN [st EXCEPT
                     !.current_amounts =
                         [i \in DOMAIN st.current_amounts |->
                             RMul(st.current_amounts[i], RAdd(One, inflation_rate))],
                     !.last_inflation_year = Some(YearOf(year_month))]
             ELSE st

apply_inflation_if_due(budget_settings, st, year_month, month_num) ==
    IF month_num # 1 THEN st
    ELSE LET current_year == YearOf(year_month)
         IN  IF st.last_inflation_year = Some(current_year) THEN st
             ELSE LET inflation_rate == budget_settings.inflation_annual_percent
                  IN  IF RLt(Zero, inflation_rate)
                      THEN [st EXCEPT
                              !.current_amounts =
                                  [i \in DOMAIN st.current_amounts |->
                                      RMul(st.current_amounts[i],
                                           RAdd(One, inflation_rate))],
                              !.last_inflation_year = Some(current_year)]
                      ELSE st

\* current_year_month >= person.death_year_month on "YYYY-MM" strings with
\* four-digit years: the order of the (year, month) pairs.
year_month_ge(ym1, ym2) == ~month_is_before(ym1, ym2)

someone_deceased(people, year_month) ==
    \E k \in 1..Len(people) :
        /\ death_year_month(people[k]) # None
        /\ year_month_ge(year_month, death_year_month(people[k]))

\* The loop over settings.categories that reduces the amounts.
reduce_amounts(budget_settings, amounts) ==
    LET reduction_percent == budget_settings.survivor_flexible_reduction_percent
        reduction_mode == budget_settings.survivor_reduction_mode
        reduced(i) ==
            \/ reduction_mode = "all"
            \/ /\ reduction_mode = "flex_only"
               /\ budget_settings.categories[i].category_type = "flexible"
    IN  [i \in DOMAIN amounts |->
            IF reduced(i) THEN RMul(amounts[i], RSub(One, reduction_percent))
            ELSE amounts[i]]

\* Mutant: the latch is not looked at.
apply_survivor_reduction_unlatched(budget_settings, st, year_month, people) ==
    IF Len(people) < 2 THEN st
    ELSE IF ~someone_deceased(people, year_month) THEN st
    ELSE IF RLe(budget_settings.survivor_flexible_reduction_percent, Zero)
    THEN [st EXCEPT !.survivor_reduction_applied = TRUE]
    ELSE [st EXCEPT
            !.current_amounts = reduce_amounts(budget_settings, st.current_amounts),
            !.survivor_reduction_applied = TRUE]

apply_survivor_reduction_if_needed(budget_settings, st, year_month, people) ==
    IF st.survivor_reduction_applied THEN st
    ELSE IF Len(people) < 2 THEN st
    ELSE IF ~someone_deceased(people, year_month) THEN st
    ELSE IF RLe(budget_settings.survivor_flexible_reduction_percent, Zero)
    THEN [st EXCEPT !.survivor_reduction_applied = TRUE]
    ELSE [st EXCEPT
            !.current_amounts = reduce_amounts(budget_settings, st.current_amounts),
            !.survivor_reduction_applied = TRUE]

get_total_monthly_spending(st) == RSumOver(st.current_amounts, DOMAIN st.current_amounts)

\* BudgetProcessor.process_month: the state after the call, the state between
\* its two steps, and the total returned.
budget_process_month(budget_settings, people, st, year_month, month_num) ==
    LET inflated == apply_inflation_if_due(budget_settings, st, year_month, month_num)
        after == apply_survivor_reduction_if_needed(budget_settings, inflated,
                                                    year_month, people)
    IN  [state |-> after, inflated |-> inflated,
         spending |-> get_total_monthly_spending(after)]

(***************************************************************************)
(* budget/net_income.py: NetIncomeCalculator.                              *)
(***************************************************************************)
MonthsPerYear == R(12)

\* Mutant: the month is charged the whole year's tax.
get_monthly_tax_estimate_whole_year(summaries, year_month) ==
    LET matching == {k \in 1..Len(summaries) : summaries[k].year = YearOf(year_month)}
    IN  IF matching = {} THEN <<Zero, Zero, Zero>>
        ELSE LET tax_summary == summaries[CHOOSE k \in matching : \A j \in matching : j <= k]
             IN  <<tax_summary.federal_tax, tax_summary.state_tax, tax_summary.total_tax>>

\* monthly_tax_estimates[year_month]: the entry written by the last tax summary
\* of the month's year, <<0.0, 0.0, 0.0>> when the dictionary has no entry.
get_monthly_tax_estimate(summaries, year_month) ==
    LET matching == {k \in 1..Len(summaries) : summaries[k].year = YearOf(year_month)}
    IN  IF matching = {} THEN <<Zero, Zero, Zero>>
        ELSE LET tax_summary == summaries[CHOOSE k \in matching : \A j \in matching : j <= k]
             IN  <<RDiv(tax_summary.federal_tax, MonthsPerYear),
                   RDiv(tax_summary.state_tax, MonthsPerYear),
                   RDiv(tax_summary.total_tax, MonthsPerYear)>>

calculate_net_income(gross_cashflow, estimated_monthly_tax) ==
    RSub(gross_cashflow, estimated_monthly_tax)

calculate_surplus_deficit(net_income_after_tax, spending) ==
    RSub(net_income_after_tax, spending)

create_projection(summaries, monthly_projection, monthly_spending) ==
    LET estimate == get_monthly_tax_estimate(summaries, monthly_projection.month)
        gross_cashflow == monthly_projection.total_gross_cashflow
        net_income_after_tax == calculate_net_income(gross_cashflow, estimate[3])
    IN  [month |-> monthly_projection.month,
         gross_cashflow |-> gross_cashflow,
         estimated_federal_tax |-> estimate[1],
         estimated_state_tax |-> estimate[2],
         estimated_total_tax |-> estimate[3],
         net_income_after_tax |-> net_income_after_tax,
         inflation_adjusted_spending |-> monthly_spending,
         surplus_deficit |-> calculate_surplus_deficit(net_income_after_tax,
                                                       monthly_spending)]

\* zip(monthly_projections, monthly_spending_amounts) stops at the shorter list.
ZipLength(a, b) == IF Len(a) <= Len(b) THEN Len(a) ELSE Len(b)

\* Mutant: the lengths are not compared.
calculate_net_income_projections_unchecked(projections, summaries, monthly_spending_amounts) ==
    [raised |-> FALSE,
     projections |->
        [k \in 1..ZipLength(projections, monthly_spending_amounts) |->
            create_projection(summaries, projections[k], monthly_spending_amounts[k])]]

\* raised: the call ended in ValueError; projections: the list returned.
calculate_net_income_projections(projections, summaries, monthly_spending_amounts) ==
    IF Len(projections) # Len(monthly_spending_amounts)
    THEN [raised |-> TRUE, projections |-> <<>>]
    ELSE [raised |-> FALSE,
          projections |->
             [k \in 1..ZipLength(projections, monthly_spending_amounts) |->
                 create_projection(summaries, projections[k],
                                   monthly_spending_amounts[k])]]

\* sum(f(p) for p in net_income_projections) for a field of the projections.
RECURSIVE SumField(_, _)
SumField(net_income_projections, field) ==
    IF Len(net_income_projections) = 0 THEN Zero
    ELSE RAdd(Head(net_income_projections)[field],
              SumField(Tail(net_income_projections), field))

\* get_financial_summary: {} for an empty list.
get_financial_summary(net_income_projections) ==
    IF Len(net_income_projections) = 0 THEN <<>>
    ELSE LET total_surplus_deficit == SumField(net_income_projections, "surplus_deficit")
             month_count == Len(net_income_projections)
         IN  [total_gross_income |-> SumField(net_income_projections, "gross_cashflow"),
              total_taxes |-> SumField(net_income_projections, "estimated_total_tax"),
              total_spending |->
                  SumField(net_income_projections, "inflation_adjusted_spending"),
              total_surplus_deficit |-> total_surplus_deficit,
              average_monthly_surplus_deficit |->
                  RMul(total_surplus_deficit, Rat(1, month_count)),
              months_in_surplus |->
                  Cardinality({k \in 1..month_count :
                      RLt(Zero, net_income_projections[k].surplus_deficit)}),
              months_in_deficit |->
                  Cardinality({k \in 1..month_count :
                      RLt(net_income_projections[k].surplus_deficit, Zero)}),
              total_months |-> month_count]

\* identify_deficit_periods: one iteration of the loop.  acc holds
\* deficit_periods and current_period (None or a period).
deficit_step(acc, projection, consecutive_months) ==
    IF RLt(projection.surplus_deficit, Zero)
    THEN IF acc.current_period = None
         THEN [acc EXCEPT !.current_period =
                  <<[start_month |-> projection.month,
                     end_month |-> projection.month,
                     total_deficit |-> projection.surplus_deficit,
                     months |-> 1]>>]
         ELSE [acc EXCEPT !.current_period =
                  <<[acc.current_period[1] EXCEPT
                        !.end_month = projection.month,
                        !.total_deficit = RAdd(@, projection.surplus_deficit),
                        !.months = @ + 1]>>]
    ELSE IF acc.current_period # None /\ acc.current_period[1].months >= consecutive_months
         THEN [deficit_periods |-> Append(acc.deficit_periods, acc.current_period[1]),
               current_period |-> None]
         ELSE [acc EXCEPT !.current_period = None]

RECURSIVE deficit_loop(_, _, _)
deficit_loop(acc, projections, consecutive_months) ==
    IF Len(projections) = 0 THEN acc
    ELSE deficit_loop(deficit_step(acc, Head(projections), consecutive_months),
                      Tail(projections), consecutive_months)

\* Mutant: the period open when the list ends is dropped.
identify_deficit_periods_no_final(projections, consecutive_months) ==
    deficit_loop([deficit_periods |-> <<>>, current_period |-> None],
                 projections, consecutive_months).deficit_periods

identify_deficit_periods(projections, consecutive_months) ==
    LET acc == deficit_loop([deficit_periods |-> <<>>, current_period |-> None],
                            projections, consecutive_months)
    IN  IF acc.current_period # None /\ acc.current_period[1].months >= consecutive_months
        THEN Append(acc.deficit_periods, acc.current_period[1])
        ELSE acc.deficit_periods

(***************************************************************************)
(* api/endpoints/projections.py: apply_surplus_to_accounts.                *)
(***************************************************************************)
\* cumulative_surplus after the first k months of zip(...).
RECURSIVE cumulative_surplus(_, _)
cumulative_surplus(net_income_projections, k) ==
    IF k = 0 THEN Zero
    ELSE RAdd(cumulative_surplus(net_income_projections, k - 1),
              net_income_projections[k].surplus_deficit)

\* Mutant: the running total is added to the first account.
apply_surplus_to_first_account(projections, net_income_projections, accs) ==
    IF Len(accs) = 0
    THEN [raised |-> FALSE, projections |-> projections]
    ELSE LET bucket == accs[1].tax_bucket
             n == ZipLength(projections, net_income_projections)
             cum(k) == cumulative_surplus(net_income_projections, k)
         IN  [raised |-> FALSE,
              projections |->
                 [k \in 1..Len(projections) |->
                     IF k > n THEN projections[k]
                     ELSE [projections[k] EXCEPT
                             !.balances_by_account[1] = RAdd(@, cum(k)),
                             !.total_investments = RAdd(@, cum(k)),
                             !.balances_by_tax_bucket[bucket] = RAdd(@, cum(k))]]]

\* The generator reads acc.receives_surplus of the first account; the class
\* declares no such field, so with any account present the read raises
\* AttributeError before anything is modified.  Lines 50-77 run past the read
\* only when it succeeds.
apply_surplus_to_accounts(projections, net_income_projections, accs) ==
    IF Len(accs) = 0
    THEN [raised |-> FALSE, projections |-> projections]
    ELSE IF ~HasAttr("receives_surplus")
    THEN [raised |-> TRUE, projections |-> projections]
    ELSE LET flagged == {i \in 1..Len(accs) : accs[i].receives_surplus}
         IN  IF flagged = {}
             THEN [raised |-> FALSE, projections |-> projections]
             ELSE LET a == CHOOSE i \in flagged : \A j \in flagged : i <= j
                      bucket == accs[a].tax_bucket
                      n == ZipLength(projections, net_income_projections)
                      cum(k) == cumulative_surplus(net_income_projections, k)
                  IN  [raised |-> FALSE,
                       projections |->
                          [k \in 1..Len(projections) |->
                              IF k > n THEN projections[k]
                              ELSE [projections[k] EXCEPT
                                      !.balances_by_account[a] = RAdd(@, cum(k)),
                                      !.total_investments = RAdd(@, cum(k)),
                                      !.balances_by_tax_bucket[bucket] =
                                          RAdd(@, cum(k))]]]

\* calculate_portfolio_growth
calculate_portfolio_growth(projections) ==
    IF Len(projections) = 0
    THEN [raised |-> FALSE,
          value |-> [starting_balance |-> Zero, ending_balance |-> Zero,
                     total_growth |-> Zero, growth_percentage |-> Zero]]
    ELSE LET starting_balance == projections[1].total_investments
             ending_balance == projections[Len(projections)].total_investments
             total_growth == RSub(ending_balance, starting_balance)
         IN  [raised |-> FALSE,
              value |-> [starting_balance |-> starting_balance,
                         ending_balance |-> ending_balance,
                         total_growth |-> total_growth,
                         growth_percentage |->
                             IF RLt(Zero, starting_balance)
                             THEN RMul(RDiv(total_growth, starting_balance), R(100))
                             ELSE Zero]]

(***************************************************************************)
(* engine/aggregator.py: AnnualAggregator.aggregate.                       *)
(***************************************************************************)
RECURSIVE SumGrossCashflow(_)
SumGrossCashflow(year_projections) ==
    IF Len(year_projections) = 0 THEN Zero
    ELSE RAdd(Head(year_projections).total_gross_cashflow,
              SumGrossCashflow(Tail(year_projections)))

\* Mutant: the first month of the year supplies the end-of-year balance.
annual_summary_of_year_first_month(year_projections, year) ==
    [year |-> year,
     total_income_year |-> SumGrossCashflow(year_projections),
     end_of_year_total_investments |-> year_projections[1].total_investments]

annual_summary_of_year(year_projections, year) ==
    [year |-> year,
     total_income_year |-> SumGrossCashflow(year_projections),
     end_of_year_total_investments |->
         year_projections[Len(year_projections)].total_investments]

aggregate(projections) ==
    IF Len(projections) = 0 THEN <<>>
    ELSE LET years == YearsOf(projections)
         IN  [k \in 1..Len(years) |->
                 annual_summary_of_year(ProjectionsOfYear(projections, years[k]),
                                        years[k])]

(***************************************************************************)
(* Inputs of the AccountProcessor specification.                           *)
(***************************************************************************)
MaxCalls == 2

AcctMonths == {<<2026, 11>>, <<2026, 12>>, <<2027, 1>>, <<2027, 2>>}
WindowStarts == {None, <<2026, 12>>}
WindowEnds == {None, <<2027, 1>>}
Surpluses == {R(-200), Zero, R(50)}
\* monthly_return_rate = (1 + annual_return_rate)^(1/12) - 1 with
\* annual_return_rate in [-0.5, 0.5]: between about -0.056 and 0.034.
MonthlyRates == {Rat(-1, 32), Rat(1, 32)}

Account(id, bucket, start, rate, c, cs, ce, w, ws, we) ==
    [account_id |-> id, tax_bucket |-> bucket, starting_balance |-> start,
     monthly_return_rate |-> rate,
     monthly_contribution |-> c, contribution_start_month |-> cs,
     contribution_end_month |-> ce,
     monthly_withdrawal |-> w, withdrawal_start_month |-> ws,
     withdrawal_end_month |-> we]

ContributionPlans ==
    {<<Zero, None, None>>} \cup {<<R(30), s, e>> : s \in WindowStarts, e \in WindowEnds}
WithdrawalPlans ==
    {<<Zero, None, None>>} \cup {<<R(150), s, e>> : s \in WindowStarts, e \in WindowEnds}

AccountChoices ==
    {Account("a1", "tax_deferred", R(b), r, cp[1], cp[2], cp[3], wp[1], wp[2], wp[3]) :
        b \in {0, 100}, r \in MonthlyRates,
        cp \in ContributionPlans, wp \in WithdrawalPlans}

SecondAccount ==
    Account("a2", "roth", R(40), Rat(1, 32), Zero, None, None, R(150), None, None)

AccountLists ==
    {<<>>} \cup {<<a>> : a \in AccountChoices}
           \cup {<<a, SecondAccount>> : a \in {x \in AccountChoices :
                                                 x.monthly_contribution = Zero}}

NoAcctCall ==
    [n |-> 0, year_month |-> None, surplus |-> Zero, start |-> <<>>,
     raised |-> FALSE, withdrawals |-> <<>>, balances |-> <<>>]

\* AccountProcessor.__init__
AcctInitOf(accs) ==
    /\ accounts = accs
    /\ balance = [i \in 1..Len(accs) |-> accs[i].starting_balance]
    /\ acct_call = NoAcctCall

AcctIdle == AcctInitOf(<<>>)

\* One call AccountProcessor.process_month(year_month, prior_month_surplus).
ProcessMonth(year_month, prior_month_surplus) ==
    /\ acct_call.n < MaxCalls
    /\ LET r == account_process_month(accounts, balance, year_month, prior_month_surplus)
       IN  /\ balance' = r.balance
           /\ acct_call' = [n |-> acct_call.n + 1, year_month |-> year_month,
                            surplus |-> prior_month_surplus, start |-> balance,
                            raised |-> r.raised, withdrawals |-> r.withdrawals,
                            balances |-> r.balances]
    /\ UNCHANGED <<accounts, income_vars, run_vars, tax_vars, later_vars>>

(***************************************************************************)
(* Inputs of the IncomeProcessor specification.  IncomeStream validates the *)
(* format of start_month and end_month only, so an end_month before the    *)
(* start_month is among the inputs.                                        *)
(***************************************************************************)
IncomeMonths ==
    {<<2025, 12>>, <<2026, 1>>, <<2026, 5>>, <<2026, 6>>,
     <<2027, 1>>, <<2027, 2>>, <<2027, 5>>}

Stream(id, type, first, last, amount, cola, cola_month) ==
    [stream_id |-> id, type |-> type, start_month |-> first, end_month |-> last,
     monthly_amount_at_start |-> amount, cola_percent_annual |-> cola,
     cola_month |-> cola_month]

StreamChoices ==
    {Stream("s1", "pension", first, last, R(5000), cola, cm) :
        first \in {<<2026, 1>>, <<2026, 5>>, <<2026, 6>>},
        last \in {None, <<2026, 5>>, <<2027, 1>>},
        cola \in {Zero, Rat(1, 50)},
        cm \in {1, 5}}

SecondStream ==
    Stream("s2", "social_security", <<2026, 6>>, None, R(2000), Rat(1, 40), 1)

StreamLists ==
    {<<>>} \cup {<<x>> : x \in StreamChoices}
           \cup {<<x, SecondStream>> : x \in {y \in StreamChoices : y.end_month = None}}

NoIncomeCall ==
    [called |-> FALSE, year_month |-> None, before |-> <<>>, income_by_stream |-> <<>>]

\* IncomeProcessor.__init__
IncomeInitOf(strs) ==
    /\ streams = strs
    /\ income_states = [i \in 1..Len(strs) |-> IncomeStateInit(strs[i])]
    /\ income_call = NoIncomeCall
    /\ cola_log = [i \in 1..Len(strs) |-> {}]

IncomeIdle == IncomeInitOf(<<>>)

\* The history of changes of current_amount, extended by one call.
ColaLogAfter(log, before, after, year_month) ==
    [i \in 1..Len(before) |->
        IF after[i].current_amount # before[i].current_amount
        THEN log[i] \cup {[year_month |-> year_month,
                           from |-> before[i].current_amount,
                           to |-> after[i].current_amount]}
        ELSE log[i]]

\* One call IncomeProcessor.process_month(year_month, month_num), the calls
\* being made in non-decreasing chronological order.
IncomeProcessMonth(year_month) ==
    /\ income_call.year_month # None =>
          ~month_is_before(year_month, income_call.year_month)
    /\ LET r == income_process_month(streams, income_states, year_month,
                                     MonthOf(year_month))
       IN  /\ income_states' = r.states
           /\ income_call' = [called |-> TRUE,
                              year_month |-> year_month,
                              before |-> income_states,
                              income_by_stream |-> r.income_by_stream]
           /\ cola_log' = ColaLogAfter(cola_log, income_states, r.states, year_month)
    /\ UNCHANGED <<streams, acct_vars, run_vars, tax_vars, later_vars>>

(***************************************************************************)
(* Inputs of the ProjectionEngine specification.  Three families of        *)
(* scenarios: people and filing status varied over several years; income   *)
(* streams and account windows varied over two years (accounts without     *)
(* growth); accounts with growth over the last months of one year.         *)
(***************************************************************************)
Person(id, birth_year, birth_month, life_expectancy) ==
    [person_id |-> id, birth_year |-> birth_year, birth_month |-> birth_month,
     life_expectancy_years |-> life_expectancy]

\* Death year-months: none, 2025-09, 2026-06 and 2027-03.
PersonChoices ==
    {Person("p", 1950, 6, None), Person("p", 1950, 9, Some(75)),
     Person("p", 1950, 6, Some(76)), Person("p", 1950, 3, Some(77))}

PeopleLists ==
    {<<>>} \cup {<<x>> : x \in PersonChoices}
           \cup {<<[x EXCEPT !.person_id = "p1"], [y EXCEPT !.person_id = "p2"]>> :
                    x \in PersonChoices, y \in PersonChoices}

Scenario(people, filing_status, start_month, end_year) ==
    [people |-> people, filing_status |-> filing_status,
     projection_start_month |-> start_month, projection_end_year |-> end_year]

PlainStream == Stream("s1", "pension", <<2026, 1>>, None, R(5000), Rat(1, 50), 1)
PlainAccount ==
    Account("a1", "tax_deferred", R(100), Zero, Zero, None, None, Zero, None, None)
Couple == <<Person("p1", 1950, 6, None), Person("p2", 1950, 6, None)>>

\* Accounts without growth, windows inside 2026-2027.
SteadyAccounts ==
    {Account("a1", "tax_deferred", R(b), Zero, cp[1], cp[2], cp[3], wp[1], wp[2], wp[3]) :
        b \in {0, 400},
        cp \in {<<Zero, None, None>>, <<R(30), <<2026, 12>>, None>>},
        wp \in {<<Zero, None, None>>, <<R(150), None, None>>,
                <<R(150), <<2026, 11>>, <<2027, 1>>>>}}

\* Accounts with growth, windows inside the last quarter of 2026.
GrowingAccounts ==
    {Account("a1", "taxable", R(b), r, cp[1], cp[2], cp[3], wp[1], wp[2], wp[3]) :
        b \in {0, 100}, r \in MonthlyRates,
        cp \in {<<Zero, None, None>>, <<R(30), <<2026, 11>>, None>>},
        wp \in {<<Zero, None, None>>, <<R(150), None, <<2026, 11>>>>,
                <<R(150), <<2026, 11>>, None>>}}

RunInputs ==
    {[scenario |-> Scenario(ppl, fs, first, last),
      streams |-> <<PlainStream>>, accounts |-> <<PlainAccount>>] :
        ppl \in PeopleLists, fs \in FilingStatuses,
        first \in {<<2026, 1>>, <<2026, 11>>}, last \in 2026..2028}
    \cup
    {[scenario |-> Scenario(Couple, "married_filing_jointly", first, 2027),
      streams |-> strs, accounts |-> <<a>>] :
        strs \in StreamLists, a \in SteadyAccounts, first \in {<<2026, 1>>}}
    \cup
    {[scenario |-> Scenario(Couple, "married_filing_jointly", <<2028, 1>>, 2027),
      streams |-> <<PlainStream>>, accounts |-> <<PlainAccount>>]}
    \cup
    {[scenario |-> Scenario(Couple, "married_filing_jointly", <<2026, 10>>, 2026),
      streams |-> <<PlainStream>>, accounts |-> accs] :
        accs \in {<<a>> : a \in GrowingAccounts}
                 \cup {<<a, SecondAccount>> : a \in GrowingAccounts}}

\* BudgetSettings() with its defaults: no categories, 2.5% inflation.
DefaultBudgetSettings ==
    [categories |-> <<>>, inflation_annual_percent |-> Rat(25, 1000),
     survivor_flexible_reduction_percent |-> Zero,
     survivor_reduction_mode |-> "flex_only"]

NoBudgetCall ==
    [called |-> FALSE, year_month |-> None, earlier |-> {}, before |-> <<>>,
     inflated |-> <<>>, spending |-> Zero]

\* BudgetProcessor.__init__
BudgetInitOf(budget_settings, people) ==
    /\ budget = [settings |-> budget_settings, people |-> people]
    /\ budget_state = BudgetStateInit(budget_settings)
    /\ budget_call = NoBudgetCall
    /\ budget_log = {}

BudgetIdle == BudgetInitOf(DefaultBudgetSettings, <<>>)

NoNetIncomeCall == [called |-> FALSE, spending |-> <<>>, raised |-> FALSE,
                    projections |-> <<>>]

NoSurplusPass == [called |-> FALSE, raised |-> FALSE, before |-> <<>>]

\* calculate_projection not yet past engine.run().
PipeInitOf(scenario_settings) ==
    /\ settings = scenario_settings
    /\ pipe_pc = "idle"
    /\ tax_summaries = <<>>
    /\ spending_amounts = <<>>
    /\ net_income = NoNetIncomeCall
    /\ surplus_pass = NoSurplusPass
    /\ annual_summaries = <<>>
    /\ financial_summary = None

PipeIdle ==
    PipeInitOf([residence_state |-> "AZ", standard_deduction_override |-> None,
                budget_settings |-> DefaultBudgetSettings])

DeficitIdle ==
    /\ deficit_in = <<>>
    /\ deficit_out = <<>>

\* Timeline(start_month, end_year), no generator started.
TimelineInitOf(start_month, end_year) ==
    /\ timeline = [start_month |-> start_month, end_year |-> end_year]
    /\ tl_pc = "idle"
    /\ tl_current = None
    /\ tl_yielded = <<>>
    /\ tl_passes = <<>>
    /\ tl_total = None

TimelineIdle == TimelineInitOf(<<2026, 1>>, 2026)

\* ProjectionEngine(scenario): no run() completed on it.
RerunIdle ==
    /\ run_returned = <<>>
    /\ engine_runs = 0

\* No side-by-side runs.
InterleavedIdle == runs = <<>>

\* No dividing routine called.
DegenerateIdle ==
    /\ degenerate_in = <<>>
    /\ degenerate_out = <<>>

\* No request made to the API.
ApiIdle ==
    /\ scenarios_db = <<>>
    /\ api_response = <<>>

ExtraIdle == TimelineIdle /\ RerunIdle /\ InterleavedIdle /\ DegenerateIdle /\ ApiIdle

LaterIdle == BudgetIdle /\ PipeIdle /\ DeficitIdle /\ ExtraIdle

RunIdle ==
    /\ scenario = Scenario(<<>>, "single", <<2026, 1>>, 2026)
    /\ current = None
    /\ monthly_projections = <<>>
    /\ run_pc = "idle"

TaxIdle ==
    /\ tax_in = <<>>
    /\ tax_out = <<>>

\* ProjectionEngine.__init__
Init ==
    \E inp \in RunInputs :
        /\ scenario = inp.scenario
        /\ current = None
        /\ monthly_projections = <<>>
        /\ run_pc = "idle"
        /\ AcctInitOf(inp.accounts)
        /\ IncomeInitOf(inp.streams)
        /\ TaxIdle /\ LaterIdle

\* ProjectionEngine.run up to the first test of the loop.
RunStart ==
    /\ run_pc = "idle"
    /\ run_pc' = "loop"
    /\ monthly_projections' = <<>>
    /\ current' = scenario.projection_start_month
    /\ UNCHANGED <<scenario, acct_vars, income_vars, tax_vars, later_vars>>

\* One iteration of the loop over Timeline.months.
RunStep ==
    /\ run_pc = "loop"
    /\ timeline_continues(current, scenario.projection_end_year)
    /\ LET r == run_iteration(scenario, streams, income_states, accounts, balance,
                              current, MonthOf(current))
       IN  /\ monthly_projections' = Append(monthly_projections, r.projection)
           /\ income_states' = r.income_states
           /\ income_call' = [called |-> TRUE, year_month |-> current,
                              before |-> income_states,
                              income_by_stream |-> r.projection.income_by_stream]
           /\ cola_log' = ColaLogAfter(cola_log, income_states, r.income_states, current)
           /\ balance' = r.balance
           /\ acct_call' = [n |-> acct_call.n + 1, year_month |-> current,
                            surplus |-> Zero, start |-> balance, raised |-> FALSE,
                            withdrawals |-> r.projection.withdrawals_by_account,
                            balances |-> r.projection.balances_by_account]
    /\ current' = next_month(current)
    /\ UNCHANGED <<scenario, run_pc, accounts, streams, tax_vars, later_vars>>

\* The generator is exhausted: run returns monthly_projections.
RunReturn ==
    /\ run_pc = "loop"
    /\ ~timeline_continues(current, scenario.projection_end_year)
    /\ run_pc' = "done"
    /\ UNCHANGED <<scenario, current, monthly_projections, acct_vars, income_vars,
                   tax_vars, later_vars>>

Next == RunStart \/ RunStep \/ RunReturn

Spec == Init /\ [][Next]_vars

(***************************************************************************)
(* AccountProcessor and IncomeProcessor called directly.                   *)
(***************************************************************************)
InitAccounts ==
    /\ \E accs \in AccountLists : AcctInitOf(accs)
    /\ IncomeIdle /\ RunIdle /\ TaxIdle /\ LaterIdle

NextAccounts ==
    \E ym \in AcctMonths, s \in Surpluses : ProcessMonth(ym, s)

SpecAccounts == InitAccounts /\ [][NextAccounts]_vars

InitIncome ==
    /\ \E strs \in StreamLists : IncomeInitOf(strs)
    /\ AcctIdle /\ RunIdle /\ TaxIdle /\ LaterIdle

NextIncome ==
    \E ym \in IncomeMonths : IncomeProcessMonth(ym)

SpecIncome == InitIncome /\ [][NextIncome]_vars

(***************************************************************************)
(* The tax functions applied to drawn arguments.                           *)
(***************************************************************************)
SsaIncomes == {R(0), R(10000), R(20000), R(24000), R(40000), R(60000)}
OtherIncomes == {R(0), R(15000), R(20000), R(24000), R(40000), R(100000)}
TaxExemptInterests == {R(0), R(5000)}

InitSSA ==
    /\ tax_in \in [ssa_income : SsaIncomes, other_ordinary_income : OtherIncomes,
                   filing_status : FilingStatuses,
                   tax_exempt_interest : TaxExemptInterests]
    /\ tax_out = <<>>
    /\ AcctIdle /\ IncomeIdle /\ RunIdle /\ LaterIdle

CalculateTaxableSSA ==
    /\ tax_out = <<>>
    /\ tax_out' =
          [taxable_ssa |->
              calculate_taxable_ssa(tax_in.ssa_income, tax_in.other_ordinary_income,
                                    tax_in.filing_status, tax_in.tax_exempt_interest)]
    /\ UNCHANGED <<tax_in, acct_vars, income_vars, run_vars, later_vars>>

NextSSA == CalculateTaxableSSA

SpecSSA == InitSSA /\ [][NextSSA]_vars

AGIs ==
    {R(0), R(10000), R(14600), R(20000), R(26200), R(29200), R(40000), R(64600),
     R(115125), R(250000), R(400000), R(700000), R(900000)}
DeductionOverrides == {None, Some(R(0)), Some(R(20000))}

InitFederal ==
    /\ tax_in \in [agi : AGIs, filing_status : FilingStatuses,
                   standard_deduction_override : DeductionOverrides]
    /\ tax_out = <<>>
    /\ AcctIdle /\ IncomeIdle /\ RunIdle /\ LaterIdle

\* calculate_taxable_income, calculate_federal_tax and get_tax_bracket_breakdown
\* on the same taxable income.
CalculateFederalTax ==
    /\ tax_out = <<>>
    /\ LET taxable_income ==
               calculate_taxable_income(tax_in.agi, tax_in.filing_status,
                                        tax_in.standard_deduction_override)
       IN  tax_out' =
              [taxable_income |-> taxable_income,
               federal_tax |-> calculate_federal_tax(taxable_income, tax_in.filing_status),
               breakdown |-> get_tax_bracket_breakdown(taxable_income,
                                                       tax_in.filing_status)]
    /\ UNCHANGED <<tax_in, acct_vars, income_vars, run_vars, later_vars>>

NextFederal == CalculateFederalTax

SpecFederal == InitFederal /\ [][NextFederal]_vars

(***************************************************************************)
(* BudgetProcessor called directly.                                        *)
(***************************************************************************)
BudgetMonths == {<<2026, 1>>, <<2026, 6>>, <<2026, 12>>, <<2027, 1>>, <<2027, 3>>}

Category(name, type, amount, include) ==
    [category_name |-> name, category_type |-> type, monthly_amount |-> amount,
     include |-> include, end_month |-> None]

\* A category with an end_month.
EndingCategory(name, type, amount, include, end_month) ==
    [Category(name, type, amount, include) EXCEPT !.end_month = Some(end_month)]

CategoryLists ==
    {<<>>,
     <<Category("Mortgage", "fixed", R(1600), TRUE),
       Category("Travel", "flexible", R(400), TRUE)>>,
     <<Category("Travel", "flexible", R(400), TRUE),
       Category("Boat", "flexible", R(800), FALSE),
       Category("Groceries", "fixed", R(800), TRUE)>>,
     <<EndingCategory("Mortgage", "fixed", R(1600), TRUE, <<2026, 12>>),
       Category("Groceries", "fixed", R(800), TRUE)>>}

\* The budget of tests/budget/test_integration.py: 2,000 + 800 + 500 at 3%.
SimpleRetirementBudget ==
    [categories |-> <<Category("Housing", "fixed", R(2000), TRUE),
                      Category("Food", "flexible", R(800), TRUE),
                      Category("Entertainment", "flexible", R(500), TRUE)>>,
     inflation_annual_percent |-> Rat(3, 100),
     survivor_flexible_reduction_percent |-> Zero,
     survivor_reduction_mode |-> "flex_only"]

BudgetChoices ==
    [categories : CategoryLists,
     inflation_annual_percent : {Zero, Rat(25, 1000)},
     survivor_flexible_reduction_percent : {Zero, Rat(25, 100)},
     survivor_reduction_mode : SurvivorReductionModes]
    \cup {SimpleRetirementBudget}

\* The changes of current_amounts made by the two steps of one call.
BudgetLogAfter(log, before, r, year_month) ==
    log \cup (IF r.inflated.current_amounts # before.current_amounts
              THEN {[kind |-> "inflation", year_month |-> year_month,
                     from |-> before.current_amounts,
                     to |-> r.inflated.current_amounts]}
              ELSE {})
        \cup (IF r.state.current_amounts # r.inflated.current_amounts
              THEN {[kind |-> "survivor_reduction", year_month |-> year_month,
                     from |-> r.inflated.current_amounts,
                     to |-> r.state.current_amounts]}
              ELSE {})

\* One call BudgetProcessor.process_month(year_month, month_num), the calls being
\* made in non-decreasing chronological order.
BudgetProcessMonth(year_month) ==
    /\ budget_call.year_month # None =>
          ~month_is_before(year_month, budget_call.year_month)
    /\ LET r == budget_process_month(budget.settings, budget.people, budget_state,
                                     year_month, MonthOf(year_month))
       IN  /\ budget_state' = r.state
           /\ budget_call' =
                 [called |-> TRUE, year_month |-> year_month,
                  earlier |-> IF budget_call.called
                              THEN budget_call.earlier \cup {budget_call.year_month}
                              ELSE {},
                  before |-> budget_state, inflated |-> r.inflated,
                  spending |-> r.spending]
           /\ budget_log' = BudgetLogAfter(budget_log, budget_state, r, year_month)
    /\ UNCHANGED <<budget, acct_vars, income_vars, run_vars, tax_vars, pipe_vars,
                   deficit_vars, extra_vars>>

InitBudget ==
    /\ \E b \in BudgetChoices, ppl \in PeopleLists : BudgetInitOf(b, ppl)
    /\ AcctIdle /\ IncomeIdle /\ RunIdle /\ TaxIdle /\ PipeIdle /\ DeficitIdle /\ ExtraIdle

NextBudget ==
    \E ym \in BudgetMonths : BudgetProcessMonth(ym)

SpecBudget == InitBudget /\ [][NextBudget]_vars

(***************************************************************************)
(* calculate_projection: the stages that follow engine.run().              *)
(***************************************************************************)
ScenarioSettings(residence_state, standard_deduction_override, budget_settings) ==
    [residence_state |-> residence_state,
     standard_deduction_override |-> standard_deduction_override,
     budget_settings |-> budget_settings]

\* One state without income tax, one with brackets, one with a flat rate, one
\* that StateTaxConfig does not know.
ResidenceStates == {"TX", "CA", "AZ", "ZZ"}

HouseholdBudget ==
    [categories |-> <<Category("Mortgage", "fixed", R(1600), TRUE),
                      Category("Travel", "flexible", R(400), TRUE)>>,
     inflation_annual_percent |-> Rat(25, 1000),
     survivor_flexible_reduction_percent |-> Rat(25, 100),
     survivor_reduction_mode |-> "flex_only"]

LavishBudget ==
    [categories |-> <<Category("Travel", "flexible", R(9000), TRUE)>>,
     inflation_annual_percent |-> Zero,
     survivor_flexible_reduction_percent |-> Zero,
     survivor_reduction_mode |-> "all"]

Widowed == <<Person("p1", 1950, 6, Some(76)), Person("p2", 1950, 6, None)>>

PensionStream == Stream("s1", "pension", <<2026, 1>>, None, R(6000), Zero, 1)
BenefitStream == Stream("s2", "social_security", <<2026, 12>>, None, R(2400), Zero, 1)

PipelineStreamLists == {<<PensionStream>>, <<PensionStream, BenefitStream>>}

Withdrawing(id, bucket) ==
    Account(id, bucket, R(1000), Zero, Zero, None, None, R(150), None, None)

PipelineAccountLists ==
    {<<>>,
     <<Withdrawing("a1", "roth")>>,
     <<Withdrawing("a1", "tax_deferred"), Withdrawing("a2", "taxable")>>,
     <<Withdrawing("a1", "taxable"), Withdrawing("a2", "roth"),
       Account("a3", "taxable", R(500), Zero, R(30), None, None, Zero, None, None)>>}

\* Two accounts with growth; the second one's withdrawal exceeds its balance.
GrowingAccountList ==
    <<Account("a1", "taxable", R(1000), Rat(1, 32), R(30), None, None, R(150), None, None),
      Account("a2", "roth", R(400), Rat(-1, 32), Zero, None, None, R(500), None, None)>>

PipelineInputs ==
    {[scenario |-> Scenario(ppl, fs, <<2026, 11>>, last),
      streams |-> strs, accounts |-> accs,
      settings |-> ScenarioSettings(st, None, b)] :
        ppl \in {Couple, Widowed},
        fs \in {"single", "married_filing_jointly", "head_of_household"},
        last \in {2026, 2027},
        strs \in PipelineStreamLists,
        accs \in PipelineAccountLists,
        st \in ResidenceStates,
        b \in {HouseholdBudget}}
    \cup
    {[scenario |-> Scenario(<<Person("p1", 1950, 6, None)>>, "single", <<2026, 11>>, 2027),
      streams |-> <<Stream("s1", "pension", <<2026, 1>>, None, R(8000), Zero, 1),
                    BenefitStream>>,
      accounts |-> accs,
      settings |-> ScenarioSettings("AZ", ded, LavishBudget)] :
        accs \in PipelineAccountLists, ded \in {None, Some(R(40000))}}
    \cup
    {[scenario |-> Scenario(Couple, "married_filing_jointly", <<2026, 11>>, 2026),
      streams |-> <<PensionStream>>, accounts |-> GrowingAccountList,
      settings |-> ScenarioSettings(st, None, HouseholdBudget)] :
        st \in {"TX", "CA"}}
    \cup
    {[scenario |-> Scenario(Couple, "single", <<2028, 1>>, 2027),
      streams |-> <<PensionStream>>, accounts |-> <<>>,
      settings |-> ScenarioSettings("AZ", None, HouseholdBudget)]}

\* ProjectionEngine(scenario), before engine.run().
InitPipeline ==
    /\ \E inp \in PipelineInputs :
          /\ scenario = inp.scenario
          /\ current = None
          /\ monthly_projections = <<>>
          /\ run_pc = "idle"
          /\ AcctInitOf(inp.accounts)
          /\ IncomeInitOf(inp.streams)
          /\ PipeInitOf(inp.settings)
    /\ TaxIdle /\ BudgetIdle /\ DeficitIdle /\ ExtraIdle

\* calculate_taxes_for_projection(monthly_projections, scenario.income_streams,
\* filing_status, residence_state, standard_deduction_override)
CalculateTaxes ==
    /\ run_pc = "done"
    /\ pipe_pc = "idle"
    /\ tax_summaries' =
          calculate_taxes_for_projection(monthly_projections, streams,
                                         scenario.filing_status,
                                         settings.residence_state,
                                         settings.standard_deduction_override)
    /\ pipe_pc' = "taxed"
    /\ UNCHANGED <<settings, spending_amounts, net_income, surplus_pass,
                   annual_summaries, financial_summary, acct_vars, income_vars, run_vars, tax_vars,
                   budget_vars, deficit_vars, extra_vars>>

\* The loop that calls budget_processor.process_month for every projection.
RECURSIVE budget_spending_loop(_, _, _, _)
budget_spending_loop(budget_settings, people, st, projections) ==
    IF Len(projections) = 0 THEN <<>>
    ELSE LET year_month == Head(projections).month
             r == budget_process_month(budget_settings, people, st, year_month,
                                       MonthOf(year_month))
         IN  <<r.spending>>
             \o budget_spending_loop(budget_settings, people, r.state,
                                     Tail(projections))

ProcessBudget ==
    /\ pipe_pc = "taxed"
    /\ spending_amounts' =
          budget_spending_loop(settings.budget_settings, scenario.people,
                               BudgetStateInit(settings.budget_settings),
                               monthly_projections)
    /\ pipe_pc' = "budgeted"
    /\ UNCHANGED <<settings, tax_summaries, net_income, surplus_pass,
                   annual_summaries, financial_summary, acct_vars, income_vars, run_vars, tax_vars,
                   budget_vars, deficit_vars, extra_vars>>

\* The spending lists handed to calculate_net_income_projections: the one the
\* endpoint built, and lists one entry shorter or longer supplied by another caller.
SpendingLists(built) ==
    {built, Append(built, R(2000))}
    \cup (IF Len(built) > 0 THEN {SubSeq(built, 1, Len(built) - 1)} ELSE {})

CalculateNetIncome(monthly_spending_amounts) ==
    /\ pipe_pc = "budgeted"
    /\ LET r == calculate_net_income_projections(monthly_projections, tax_summaries,
                                                 monthly_spending_amounts)
       IN  /\ net_income' = [called |-> TRUE, spending |-> monthly_spending_amounts,
                             raised |-> r.raised, projections |-> r.projections]
           /\ pipe_pc' = IF r.raised THEN "failed" ELSE "netted"
    /\ UNCHANGED <<settings, tax_summaries, spending_amounts, surplus_pass,
                   annual_summaries, financial_summary, acct_vars, income_vars, run_vars, tax_vars,
                   budget_vars, deficit_vars, extra_vars>>

\* apply_surplus_to_accounts(monthly_projections, net_income_projections,
\* scenario.accounts): the projections are modified in place.
ApplySurplus ==
    /\ pipe_pc = "netted"
    /\ LET r == apply_surplus_to_accounts(monthly_projections, net_income.projections,
                                          accounts)
       IN  /\ monthly_projections' = r.projections
           /\ surplus_pass' = [called |-> TRUE, raised |-> r.raised,
                               before |-> monthly_projections]
           /\ pipe_pc' = IF r.raised THEN "failed" ELSE "surplus_applied"
    /\ UNCHANGED <<settings, tax_summaries, spending_amounts, net_income,
                   annual_summaries, financial_summary, scenario, current, run_pc, acct_vars,
                   income_vars, tax_vars, budget_vars, deficit_vars, extra_vars>>

\* AnnualAggregator(monthly_projections).aggregate(), on the projections as
\* engine.run() returned them or as the surplus pass left them.
Aggregate ==
    /\ run_pc = "done"
    /\ pipe_pc \in {"idle", "surplus_applied"}
    /\ annual_summaries' = aggregate(monthly_projections)
    /\ pipe_pc' = "aggregated"
    /\ UNCHANGED <<settings, tax_summaries, spending_amounts, net_income,
                   surplus_pass, financial_summary, acct_vars, income_vars, run_vars, tax_vars,
                   budget_vars, deficit_vars, extra_vars>>

\* get_financial_summary(net_income_projections), called on the list that
\* calculate_net_income_projections returned.
GetFinancialSummary ==
    /\ pipe_pc \in {"netted", "aggregated"}
    /\ net_income.called /\ ~net_income.raised
    /\ financial_summary = None
    /\ financial_summary' = Some(get_financial_summary(net_income.projections))
    /\ UNCHANGED <<settings, pipe_pc, tax_summaries, spending_amounts, net_income,
                   surplus_pass, annual_summaries, acct_vars, income_vars, run_vars,
                   tax_vars, budget_vars, deficit_vars, extra_vars>>

NextPipeline ==
    \/ RunStart
    \/ RunStep
    \/ RunReturn
    \/ CalculateTaxes
    \/ ProcessBudget
    \/ \E sp \in SpendingLists(spending_amounts) : CalculateNetIncome(sp)
    \/ ApplySurplus
    \/ Aggregate
    \/ GetFinancialSummary

SpecPipeline == InitPipeline /\ [][NextPipeline]_vars

(***************************************************************************)
(* identify_deficit_periods applied to drawn series.                       *)
(***************************************************************************)
MaxSeriesLen == 4

SurplusValues == {R(-200), R(-50), Zero, R(300)}
MinimumLengths == {0, 1, 2, 3}

\* A series of consecutive months starting in 2026-11.
RECURSIVE SeriesMonth(_)
SeriesMonth(k) == IF k = 1 THEN <<2026, 11>> ELSE next_month(SeriesMonth(k - 1))

NetIncomeSeries ==
    UNION {{[k \in 1..n |-> [month |-> SeriesMonth(k), surplus_deficit |-> v[k]]] :
               v \in [1..n -> SurplusValues]} : n \in 0..MaxSeriesLen}

InitDeficit ==
    /\ deficit_in \in [net_income_projections : NetIncomeSeries,
                       consecutive_months : MinimumLengths]
    /\ deficit_out = <<>>
    /\ AcctIdle /\ IncomeIdle /\ RunIdle /\ TaxIdle /\ BudgetIdle /\ PipeIdle /\ ExtraIdle

IdentifyDeficitPeriods ==
    /\ deficit_out = <<>>
    /\ deficit_out' =
          <<identify_deficit_periods(deficit_in.net_income_projections,
                                     deficit_in.consecutive_months)>>
    /\ UNCHANGED <<deficit_in, acct_vars, income_vars, run_vars, tax_vars,
                   budget_vars, pipe_vars, extra_vars>>

NextDeficit == IdentifyDeficitPeriods

SpecDeficit == InitDeficit /\ [][NextDeficit]_vars

(***************************************************************************)
(* Timeline: generators made by months(), and total_months().              *)
(***************************************************************************)
MaxPasses == 2

TimelineStarts == {<<2026, 1>>, <<2026, 6>>, <<2026, 12>>, <<2027, 1>>, <<2027, 11>>}
TimelineEndYears == 2025..2028

InitTimeline ==
    /\ \E s \in TimelineStarts, e \in TimelineEndYears : TimelineInitOf(s, e)
    /\ AcctIdle /\ IncomeIdle /\ RunIdle /\ TaxIdle
    /\ BudgetIdle /\ PipeIdle /\ DeficitIdle
    /\ RerunIdle /\ InterleavedIdle /\ DegenerateIdle /\ ApiIdle

\* timeline.months() is called and the generator entered: current = start_date.
MonthsCall ==
    /\ tl_pc = "idle"
    /\ Len(tl_passes) < MaxPasses
    /\ tl_pc' = "iterating"
    /\ tl_current' = timeline.start_month
    /\ tl_yielded' = <<>>
    /\ UNCHANGED <<timeline, tl_passes, tl_total, acct_vars, income_vars, run_vars,
                   tax_vars, budget_vars, pipe_vars, deficit_vars,
                   rerun_vars, interleaved_vars, degenerate_vars, api_vars>>

\* One iteration of the while loop: yield, then step one month.
MonthsYield ==
    /\ tl_pc = "iterating"
    /\ timeline_continues(tl_current, timeline.end_year)
    /\ tl_yielded' = Append(tl_yielded, <<tl_current, MonthOf(tl_current)>>)
    /\ tl_current' = next_month(tl_current)
    /\ UNCHANGED <<timeline, tl_pc, tl_passes, tl_total, acct_vars, income_vars,
                   run_vars, tax_vars, budget_vars, pipe_vars, deficit_vars,
                   rerun_vars, interleaved_vars, degenerate_vars, api_vars>>

\* The while condition fails: the generator is exhausted.
MonthsExhausted ==
    /\ tl_pc = "iterating"
    /\ ~timeline_continues(tl_current, timeline.end_year)
    /\ tl_passes' = Append(tl_passes, tl_yielded)
    /\ tl_pc' = "idle"
    /\ UNCHANGED <<timeline, tl_current, tl_yielded, tl_total, acct_vars, income_vars,
                   run_vars, tax_vars, budget_vars, pipe_vars, deficit_vars,
                   rerun_vars, interleaved_vars, degenerate_vars, api_vars>>

\* timeline.total_months(), which runs a generator of its own.
TotalMonths ==
    /\ tl_pc = "idle"
    /\ tl_total = None
    /\ tl_total' = Some(total_months(timeline.start_month, timeline.end_year))
    /\ UNCHANGED <<timeline, tl_pc, tl_current, tl_yielded, tl_passes, acct_vars,
                   income_vars, run_vars, tax_vars, budget_vars, pipe_vars,
                   deficit_vars,
                   rerun_vars, interleaved_vars, degenerate_vars, api_vars>>

NextTimeline ==
    \/ MonthsCall
    \/ MonthsYield
    \/ MonthsExhausted
    \/ TotalMonths

SpecTimeline == InitTimeline /\ [][NextTimeline]_vars

\* The consumer of a generator (a for loop) keeps asking for the next month.
SpecTimelineLive == SpecTimeline /\ WF_vars(MonthsYield \/ MonthsExhausted)

(***************************************************************************)
(* ProjectionEngine.run called again, on the same engine or on a new one.  *)
(***************************************************************************)
MaxReruns == 2

ColaStream == Stream("s1", "pension", <<2026, 1>>, None, R(1000), Rat(1, 10), 1)

RerunInputs ==
    {[scenario |-> Scenario(Couple, "married_filing_jointly", <<2026, 11>>, last),
      streams |-> strs, accounts |-> accs] :
        last \in {2026, 2027},
        strs \in {<<PensionStream>>, <<ColaStream>>},
        accs \in {<<>>, <<Withdrawing("a1", "taxable")>>,
                  <<Account("a1", "roth", R(500), Zero, R(30), None, None, Zero, None, None)>>}}

InitRerun ==
    /\ \E inp \in RerunInputs :
          /\ scenario = inp.scenario
          /\ current = None
          /\ monthly_projections = <<>>
          /\ run_pc = "idle"
          /\ AcctInitOf(inp.accounts)
          /\ IncomeInitOf(inp.streams)
    /\ TaxIdle /\ BudgetIdle /\ PipeIdle /\ DeficitIdle /\ ExtraIdle

\* run() has returned and is about to be called again on the same engine:
\* the processors built by __init__ keep the state the run left in them.
RunAgainSameEngine ==
    /\ run_pc = "done"
    /\ Len(run_returned) < MaxReruns
    /\ run_returned' = Append(run_returned, [result |-> monthly_projections,
                                             engine_runs |-> engine_runs])
    /\ engine_runs' = engine_runs + 1
    /\ run_pc' = "idle"
    /\ UNCHANGED <<scenario, current, monthly_projections, acct_vars, income_vars,
                   tax_vars, budget_vars, pipe_vars, deficit_vars, timeline_vars,
                   interleaved_vars, degenerate_vars, api_vars>>

\* run() has returned and ProjectionEngine(scenario) is constructed anew for the
\* next call: __init__ builds new processors from the scenario.
RunAgainNewEngine ==
    /\ run_pc = "done"
    /\ Len(run_returned) < MaxReruns
    /\ run_returned' = Append(run_returned, [result |-> monthly_projections,
                                             engine_runs |-> engine_runs])
    /\ engine_runs' = 0
    /\ run_pc' = "idle"
    /\ balance' = [i \in 1..Len(accounts) |-> accounts[i].starting_balance]
    /\ acct_call' = NoAcctCall
    /\ income_states' = [i \in 1..Len(streams) |-> IncomeStateInit(streams[i])]
    /\ income_call' = NoIncomeCall
    /\ cola_log' = [i \in 1..Len(streams) |-> {}]
    /\ UNCHANGED <<scenario, current, monthly_projections, accounts, streams,
                   tax_vars, budget_vars, pipe_vars, deficit_vars, timeline_vars,
                   interleaved_vars, degenerate_vars, api_vars>>

NextRerun ==
    \/ RunStart
    \/ RunStep
    \/ RunReturn
    \/ RunAgainSameEngine
    \/ RunAgainNewEngine

SpecRerun == InitRerun /\ [][NextRerun]_vars

(***************************************************************************)
(* Two scenario runs whose steps are interleaved.  Each run constructs its  *)
(* own ProjectionEngine (with its processors), TaxCalculator and            *)
(* BudgetProcessor; there is no module-level or class-level mutable state   *)
(* in engine/, tax/ or budget/.                                             *)
(***************************************************************************)
RunIds == {1, 2}

InterleavedInputs ==
    {[scenario |-> Scenario(Couple, "married_filing_jointly", <<2026, 11>>, 2026),
      streams |-> <<PensionStream>>,
      accounts |-> <<Withdrawing("a1", "taxable")>>,
      settings |-> ScenarioSettings("CA", None, HouseholdBudget)],
     [scenario |-> Scenario(Widowed, "married_filing_jointly", <<2026, 12>>, 2027),
      streams |-> <<ColaStream, BenefitStream>>,
      accounts |-> <<Withdrawing("a1", "roth"), Withdrawing("a2", "tax_deferred")>>,
      settings |-> ScenarioSettings("AZ", None, HouseholdBudget)],
     [scenario |-> Scenario(<<Person("p1", 1950, 6, None)>>, "single", <<2026, 12>>, 2026),
      streams |-> <<ColaStream>>,
      accounts |-> <<>>,
      settings |-> ScenarioSettings("TX", Some(R(40000)), LavishBudget)]}

\* ProjectionEngine(scenario), TaxCalculator(...) and BudgetProcessor(...) of
\* one run, before its first step.
NewRun(inp) ==
    [input |-> inp,
     pc |-> "engine",
     current |-> inp.scenario.projection_start_month,
     income_states |-> [i \in 1..Len(inp.streams) |-> IncomeStateInit(inp.streams[i])],
     balance |-> [i \in 1..Len(inp.accounts) |-> inp.accounts[i].starting_balance],
     projections |-> <<>>,
     calculator |-> TaxCalculatorInit(inp.scenario.filing_status,
                                      inp.settings.residence_state,
                                      inp.settings.standard_deduction_override),
     tax_summaries |-> <<>>,
     budget_state |-> BudgetStateInit(inp.settings.budget_settings),
     spending |-> <<>>]

\* Mutant: every run's steps work on the BudgetState of run 1.
instances_sharing_budget_state(rs, r) == [rs[r] EXCEPT !.budget_state = rs[1].budget_state]

\* self: the objects a step of run r works on are the ones run r constructed.
instances_of(rs, r) == rs[r]

InitInterleaved ==
    /\ \E a \in InterleavedInputs, b \in InterleavedInputs :
          runs = <<NewRun(a), NewRun(b)>>
    /\ AcctIdle /\ IncomeIdle /\ RunIdle /\ TaxIdle
    /\ BudgetIdle /\ PipeIdle /\ DeficitIdle /\ TimelineIdle /\ RerunIdle
    /\ DegenerateIdle /\ ApiIdle

\* The state of run r after one iteration of its engine's loop, or after the
\* loop ended.
engine_step(self) ==
    IF timeline_continues(self.current, self.input.scenario.projection_end_year)
    THEN LET it == run_iteration(self.input.scenario, self.input.streams,
                                 self.income_states, self.input.accounts,
                                 self.balance, self.current, MonthOf(self.current))
         IN  [self EXCEPT !.projections = Append(@, it.projection),
                          !.income_states = it.income_states,
                          !.balance = it.balance,
                          !.current = next_month(self.current)]
    ELSE [self EXCEPT !.pc = "tax"]

\* tax_summaries.append(tax_summary), on the calculator as the loop body left it.
after_tax_year(self, body) ==
    [self EXCEPT !.calculator = body.calculator,
                 !.tax_summaries = Append(@, body.tax_summary)]

\* The state of run r after its calculator handled one more year, or after the
\* loop over the years ended.
tax_step(self) ==
    LET years == YearsOf(self.projections)
        k == Len(self.tax_summaries) + 1
    IN  IF k <= Len(years)
        THEN after_tax_year(self, tax_year_body(self.calculator,
                                       ProjectionsOfYear(self.projections, years[k]),
                                       self.input.streams, years[k]))
        ELSE [self EXCEPT !.pc = "budget"]

\* The state of run r after its budget processor handled one more month, or
\* after the loop over the projections ended.
budget_step(self) ==
    LET k == Len(self.spending) + 1
    IN  IF k <= Len(self.projections)
        THEN LET year_month == self.projections[k].month
                 b == budget_process_month(self.input.settings.budget_settings,
                                           self.input.scenario.people,
                                           self.budget_state, year_month,
                                           MonthOf(year_month))
             IN  [self EXCEPT !.budget_state = b.state,
                              !.spending = Append(@, b.spending)]
        ELSE [self EXCEPT !.pc = "done"]

InterleavedUnchanged ==
    UNCHANGED <<acct_vars, income_vars, run_vars, tax_vars, budget_vars, pipe_vars,
                deficit_vars, timeline_vars, rerun_vars, degenerate_vars, api_vars>>

EngineStep(r) ==
    /\ runs[r].pc = "engine"
    /\ runs' = [runs EXCEPT ![r] = engine_step(instances_of(runs, r))]
    /\ InterleavedUnchanged

TaxStep(r) ==
    /\ runs[r].pc = "tax"
    /\ runs' = [runs EXCEPT ![r] = tax_step(instances_of(runs, r))]
    /\ InterleavedUnchanged

BudgetStep(r) ==
    /\ runs[r].pc = "budget"
    /\ runs' = [runs EXCEPT ![r] = budget_step(instances_of(runs, r))]
    /\ InterleavedUnchanged

NextInterleaved ==
    \E r \in RunIds :
        \/ EngineStep(r)
        \/ TaxStep(r)
        \/ BudgetStep(r)

SpecInterleaved == InitInterleaved /\ [][NextInterleaved]_vars

(***************************************************************************)
(* The routines that divide, called with divisors that may be zero.        *)
(***************************************************************************)
AnnualTaxes == {Zero, R(1200), R(6053)}
MonthCounts == {-1, 0, 1, 12}
DegenerateAGIs == {R(-5000), Zero, R(40000)}
InvestmentTotals == {Zero, R(1000), R(1500)}

DegenerateCalls ==
    {[routine |-> "estimate_monthly_federal_tax", annual_tax |-> t, months_in_year |-> m] :
        t \in AnnualTaxes, m \in MonthCounts}
    \cup
    {[routine |-> "estimate_monthly_state_tax", annual_tax |-> t, months_in_year |-> m] :
        t \in AnnualTaxes, m \in MonthCounts}
    \cup
    {[routine |-> "estimate_monthly_taxes", annual_federal_tax |-> f,
      annual_state_tax |-> s, months_in_year |-> m] :
        f \in AnnualTaxes, s \in AnnualTaxes, m \in MonthCounts}
    \cup
    {[routine |-> "calculate_effective_tax_rate", total_tax |-> t, agi |-> a] :
        t \in AnnualTaxes, a \in DegenerateAGIs}
    \cup
    {[routine |-> "calculate_portfolio_growth",
      monthly_projections |-> [k \in 1..Len(totals) |-> [total_investments |-> totals[k]]]] :
        totals \in {<<>>} \cup {<<a>> : a \in InvestmentTotals}
                          \cup {<<a, b>> : a \in InvestmentTotals, b \in InvestmentTotals}}

InitDegenerate ==
    /\ degenerate_in \in DegenerateCalls
    /\ degenerate_out = <<>>
    /\ AcctIdle /\ IncomeIdle /\ RunIdle /\ TaxIdle
    /\ BudgetIdle /\ PipeIdle /\ DeficitIdle
    /\ TimelineIdle /\ RerunIdle /\ InterleavedIdle /\ ApiIdle

DegenerateUnchanged ==
    UNCHANGED <<degenerate_in, acct_vars, income_vars, run_vars, tax_vars, budget_vars,
                pipe_vars, deficit_vars, timeline_vars, rerun_vars, interleaved_vars,
                api_vars>>

EstimateMonthlyFederalTax ==
    /\ degenerate_out = <<>>
    /\ degenerate_in.routine = "estimate_monthly_federal_tax"
    /\ degenerate_out' =
          [raised |-> FALSE,
           value |-> estimate_monthly_federal_tax(degenerate_in.annual_tax,
                                                  degenerate_in.months_in_year)]
    /\ DegenerateUnchanged

EstimateMonthlyStateTax ==
    /\ degenerate_out = <<>>
    /\ degenerate_in.routine = "estimate_monthly_state_tax"
    /\ degenerate_out' =
          [raised |-> FALSE,
           value |-> estimate_monthly_state_tax(degenerate_in.annual_tax,
                                                degenerate_in.months_in_year)]
    /\ DegenerateUnchanged

EstimateMonthlyTaxes ==
    /\ degenerate_out = <<>>
    /\ degenerate_in.routine = "estimate_monthly_taxes"
    /\ degenerate_out' = estimate_monthly_taxes(degenerate_in.annual_federal_tax,
                                                degenerate_in.annual_state_tax,
                                                degenerate_in.months_in_year)
    /\ DegenerateUnchanged

CalculateEffectiveTaxRate ==
    /\ degenerate_out = <<>>
    /\ degenerate_in.routine = "calculate_effective_tax_rate"
    /\ degenerate_out' =
          [raised |-> FALSE,
           value |-> calculate_effective_tax_rate(degenerate_in.total_tax,
                                                  degenerate_in.agi)]
    /\ DegenerateUnchanged

CalculatePortfolioGrowth ==
    /\ degenerate_out = <<>>
    /\ degenerate_in.routine = "calculate_portfolio_growth"
    /\ degenerate_out' = calculate_portfolio_growth(degenerate_in.monthly_projections)
    /\ DegenerateUnchanged

NextDegenerate ==
    \/ EstimateMonthlyFederalTax
    \/ EstimateMonthlyStateTax
    \/ EstimateMonthlyTaxes
    \/ CalculateEffectiveTaxRate
    \/ CalculatePortfolioGrowth

SpecDegenerate == InitDegenerate /\ [][NextDegenerate]_vars

(***************************************************************************)
(* api/endpoints: the scenario store and the endpoints that create         *)
(* scenarios and calculate projections.                                    *)
(***************************************************************************)
MaxRequests == 4

\* The e-mail addresses of the signed-in users.
Users == {"ann@example.com", "bob@example.com"}

\* The scenario ids of the requests; one of them reads like a user's address.
ScenarioIds == {"test_scenario", "ann@example.com"}

\* dict.get(key): None when the key is absent.
dict_get(d, key) == IF key \in DOMAIN d THEN Some(d[key]) ELSE None

\* d[key] = value
dict_set(d, key, value) ==
    [k \in DOMAIN d \cup {key} |-> IF k = key THEN value ELSE d[k]]

\* get_user_scenarios: the store after the call; the user's dict is db[user_id].
get_user_scenarios(db, user_id) ==
    IF user_id \notin DOMAIN db THEN dict_set(db, user_id, <<>>) ELSE db

\* Mutant: the user's namespace is not used, scenarios are stored by id.
create_scenario_by_id(db, new_scenario, valid, user_id) ==
    IF ~valid THEN [db |-> db, status |-> 400, body |-> None]
    ELSE IF new_scenario.scenario_id \in DOMAIN db
    THEN [db |-> db, status |-> 409, body |-> None]
    ELSE [db |-> dict_set(db, new_scenario.scenario_id, new_scenario), status |-> 200,
          body |-> Some([scenario_id |-> new_scenario.scenario_id])]

\* create_scenario: the store after the request, the status and the body.
create_scenario(db, new_scenario, valid, user_id) ==
    IF ~valid THEN [db |-> db, status |-> 400, body |-> None]
    ELSE LET db1 == get_user_scenarios(db, user_id)
             user_scenarios == db1[user_id]
         IN  IF new_scenario.scenario_id \in DOMAIN user_scenarios
             THEN [db |-> db1, status |-> 409, body |-> None]
             ELSE [db |-> dict_set(db1, user_id,
                                   dict_set(user_scenarios, new_scenario.scenario_id,
                                            new_scenario)),
                   status |-> 200,
                   body |-> Some([scenario_id |-> new_scenario.scenario_id])]

\* What scenarios_db.get(scenario_id) returns is a Scenario (and not one
\* user's dict of scenarios).
IsScenario(x) == "scenario_id" \in DOMAIN x

\* calculate_projection: scenarios_db is keyed by user, and the request's
\* scenario_id is looked up among those keys.  A key found holds a dict, whose
\* missing attributes make ProjectionEngine raise; the handler answers 500.
calculate_projection(db, scenario_id) ==
    LET found == dict_get(db, scenario_id)
    IN  IF found = None THEN [status |-> 404, body |-> None]
        ELSE IF IsScenario(found[1])
        THEN [status |-> 200, body |-> Some([scenario_id |-> found[1].scenario_id])]
        ELSE [status |-> 500, body |-> None]

InitApi ==
    /\ scenarios_db = <<>>
    /\ api_response = [n |-> 0, endpoint |-> "none", user_id |-> None,
                       scenario_id |-> "", status |-> 0, body |-> None]
    /\ AcctIdle /\ IncomeIdle /\ RunIdle /\ TaxIdle
    /\ BudgetIdle /\ PipeIdle /\ DeficitIdle
    /\ TimelineIdle /\ RerunIdle /\ InterleavedIdle /\ DegenerateIdle

ApiUnchanged ==
    UNCHANGED <<acct_vars, income_vars, run_vars, tax_vars, budget_vars, pipe_vars,
                deficit_vars, timeline_vars, rerun_vars, interleaved_vars,
                degenerate_vars>>

\* POST /api/scenarios by a signed-in user.
CreateScenario(user_id, scenario_id, valid) ==
    /\ api_response.n < MaxRequests
    /\ LET new_scenario == [scenario_id |-> scenario_id, scenario_name |-> "Plan"]
           r == create_scenario(scenarios_db, new_scenario, valid, user_id)
       IN  /\ scenarios_db' = r.db
           /\ api_response' = [n |-> api_response.n + 1, endpoint |-> "create_scenario",
                               user_id |-> Some(user_id), scenario_id |-> scenario_id,
                               status |-> r.status, body |-> r.body]
    /\ ApiUnchanged

\* GET /api/scenarios by a signed-in user.
ListScenarios(user_id) ==
    /\ api_response.n < MaxRequests
    /\ scenarios_db' = get_user_scenarios(scenarios_db, user_id)
    /\ api_response' = [n |-> api_response.n + 1, endpoint |-> "list_scenarios",
                        user_id |-> Some(user_id), scenario_id |-> "",
                        status |-> 200,
                        body |-> Some([scenarios |-> DOMAIN scenarios_db'[user_id]])]
    /\ ApiUnchanged

\* POST /api/scenarios/{scenario_id}/projection; the endpoint takes no user.
CalculateProjection(scenario_id) ==
    /\ api_response.n < MaxRequests
    /\ LET r == calculate_projection(scenarios_db, scenario_id)
       IN  api_response' = [n |-> api_response.n + 1, endpoint |-> "calculate_projection",
                            user_id |-> None, scenario_id |-> scenario_id,
                            status |-> r.status, body |-> r.body]
    /\ UNCHANGED scenarios_db
    /\ ApiUnchanged

NextApi ==
    \/ \E u \in Users, id \in ScenarioIds, valid \in BOOLEAN : CreateScenario(u, id, valid)
    \/ \E u \in Users : ListScenarios(u)
    \/ \E id \in ScenarioIds : CalculateProjection(id)

SpecApi == InitApi /\ [][NextApi]_vars

(***************************************************************************)
(* Claims about AccountProcessor.process_month (SpecAccounts).             *)
(***************************************************************************)
MonthIndex(year_month) == YearOf(year_month) * 12 + MonthOf(year_month)

\* year_month lies in the inclusive window [first, last]; an absent end is open.
InWindow(year_month, first, last) ==
    /\ first # None => MonthIndex(first) <= MonthIndex(year_month)
    /\ last # None => MonthIndex(year_month) <= MonthIndex(last)

ContributionIn(account, year_month) ==
    IF InWindow(year_month, account.contribution_start_month,
                account.contribution_end_month)
    THEN account.monthly_contribution ELSE Zero

\* The surplus the claim gives account a: the supplied amount when a carries the
\* receives_surplus flag, zero otherwise.
SurplusFor(a, supplied) ==
    IF HasAttr("receives_surplus") /\ a.receives_surplus THEN supplied ELSE Zero

\* C1 (as stated): after every call process_month(month, prior_month_surplus) each
\* account's balance is (start + contribution - reported withdrawal + surplus)
\* * (1 + monthly_rate), the call having returned its withdrawals.
C1_EndBalanceFormula ==
    acct_call.n > 0 =>
        /\ ~acct_call.raised
        /\ \A i \in 1..Len(accounts) :
              balance[i] =
                RMul(RAdd(RSub(RAdd(acct_call.start[i],
                                    ContributionIn(accounts[i], acct_call.year_month)),
                               acct_call.withdrawals[i]),
                          SurplusFor(accounts[i], acct_call.surplus)),
                     RAdd(One, accounts[i].monthly_return_rate))

\* C2: after any sequence of process_month calls, whatever the contributions,
\* withdrawals and signed surplus values, no account balance is negative.
C2_BalanceNonNegative ==
    \A i \in 1..Len(accounts) : RLe(Zero, balance[i])

\* C2 witness: a call with a negative surplus has been made and it emptied an
\* account that held money (its withdrawal exceeded what was available).
C2_Witness ==
    /\ acct_call.n > 0
    /\ RLt(acct_call.surplus, Zero)
    /\ \E i \in 1..Len(accounts) :
          /\ RLt(Zero, acct_call.start[i])
          /\ balance[i] = Zero
          /\ RLt(acct_call.start[i], accounts[i].monthly_withdrawal)

(***************************************************************************)
(* Claims about ProjectionEngine.run (Spec).                               *)
(***************************************************************************)
LastProjection == monthly_projections[Len(monthly_projections)]

\* The balance of account i when month k of the run begins.
BalanceBefore(i, k) ==
    IF k = 1 THEN accounts[i].starting_balance
    ELSE monthly_projections[k - 1].balances_by_account[i]

AvailableAfterContribution(i, k) ==
    RAdd(BalanceBefore(i, k), ContributionIn(accounts[i], monthly_projections[k].month))

InWithdrawalWindow(account, year_month) ==
    InWindow(year_month, account.withdrawal_start_month, account.withdrawal_end_month)

\* C3: in every month inside the withdrawal window the reported withdrawal is
\* min(configured withdrawal, balance after the contribution step); when the
\* configured amount exceeds that balance the account ends the month at zero; the
\* reported amounts are not negative and total_gross_cashflow is total income plus
\* the reported withdrawals.
C3_ReportedWithdrawalClamped ==
    Len(monthly_projections) > 0 =>
        LET k == Len(monthly_projections)
            p == LastProjection
        IN  /\ \A i \in 1..Len(accounts) :
                  /\ RLe(Zero, p.withdrawals_by_account[i])
                  /\ InWithdrawalWindow(accounts[i], p.month) =>
                        /\ p.withdrawals_by_account[i] =
                              RMin(accounts[i].monthly_withdrawal,
                                   AvailableAfterContribution(i, k))
                        /\ RLt(AvailableAfterContribution(i, k),
                               accounts[i].monthly_withdrawal)
                              => p.balances_by_account[i] = Zero
            /\ p.total_gross_cashflow =
                  RAdd(RSumSeq(p.income_by_stream), RSumSeq(p.withdrawals_by_account))

\* C3 witness: an account without contribution paid out less than its configured
\* withdrawal in an earlier month (all it had) and reports 0 in the last month,
\* still inside its window.
C3_Witness ==
    /\ Len(monthly_projections) > 1
    /\ \E i \in 1..Len(accounts) :
          /\ accounts[i].monthly_contribution = Zero
          /\ InWithdrawalWindow(accounts[i], LastProjection.month)
          /\ LastProjection.withdrawals_by_account[i] = Zero
          /\ \E j \in 1..(Len(monthly_projections) - 1) :
                /\ RLt(Zero, monthly_projections[j].withdrawals_by_account[i])
                /\ RLt(monthly_projections[j].withdrawals_by_account[i],
                       accounts[i].monthly_withdrawal)
                /\ monthly_projections[j].withdrawals_by_account[i] = BalanceBefore(i, j)

InActiveWindow(stream, year_month) ==
    InWindow(year_month, stream.start_month, stream.end_month)

\* The number of processed months, up to the last one, inside the stream's
\* active window whose month number is the stream's cola_month.
ColaMonthsProcessed(stream) ==
    Cardinality({j \in 1..Len(monthly_projections) :
                    /\ InActiveWindow(stream, monthly_projections[j].month)
                    /\ MonthOf(monthly_projections[j].month) = stream.cola_month})

PeopleWithDeathDate(people) ==
    {i \in 1..Len(people) : death_year_month(people[i]) # None}

\* The status the claims expect in year_month when the earliest death falls in
\* death_year.
StatusAround(death_year, year_month) ==
    IF YearOf(year_month) <= death_year THEN "married_filing_jointly" ELSE "single"

\* C7 (as stated): with married_filing_jointly configured and a single death
\* year-month, in year Y, every month through December of Y is reported
\* married_filing_jointly and every month from January of Y+1 on is reported single.
C7_SingleDeathSwitch ==
    (/\ scenario.filing_status = "married_filing_jointly"
     /\ Cardinality(PeopleWithDeathDate(scenario.people)) = 1)
    =>
        LET d == CHOOSE i \in PeopleWithDeathDate(scenario.people) : TRUE
            Y == YearOf(death_year_month(scenario.people[d]))
        IN  \A k \in 1..Len(monthly_projections) :
                monthly_projections[k].filing_status =
                    StatusAround(Y, monthly_projections[k].month)

\* C7 (amended): the same, for scenarios that have at least two people.
C7_SingleDeathSwitchCouple ==
    Len(scenario.people) >= 2 => C7_SingleDeathSwitch

\* C7 witness: a couple, one of them dying in 2026; December 2026 was reported
\* married_filing_jointly and the last month, in 2027, is reported single.
C7_Witness ==
    /\ Len(scenario.people) >= 2
    /\ scenario.filing_status = "married_filing_jointly"
    /\ Cardinality(PeopleWithDeathDate(scenario.people)) = 1
    /\ \E i \in 1..Len(scenario.people) :
          death_year_month(scenario.people[i]) = <<2026, 6>>
    /\ Len(monthly_projections) > 1
    /\ YearOf(LastProjection.month) = 2027
    /\ LastProjection.filing_status = "single"
    /\ \E j \in 1..Len(monthly_projections) :
          /\ monthly_projections[j].month = <<2026, 12>>
          /\ monthly_projections[j].filing_status = "married_filing_jointly"

EarliestDeathYear(people) ==
    LET years == {YearOf(death_year_month(people[i])) : i \in PeopleWithDeathDate(people)}
    IN  CHOOSE y \in years : \A z \in years : y <= z

\* C8: once a month is reported single no later month is reported
\* married_filing_jointly; a configured status other than married_filing_jointly
\* is reported for every month; and when several people have death dates the
\* months after the calendar year of the earliest death, and only those, are
\* reported single.
C8_FilingStatusMonotonic ==
    /\ \A j, k \in 1..Len(monthly_projections) :
          (j < k /\ monthly_projections[j].filing_status = "single")
             => monthly_projections[k].filing_status # "married_filing_jointly"
    /\ scenario.filing_status # "married_filing_jointly" =>
          \A k \in 1..Len(monthly_projections) :
             monthly_projections[k].filing_status = scenario.filing_status
    /\ (/\ scenario.filing_status = "married_filing_jointly"
        /\ Cardinality(PeopleWithDeathDate(scenario.people)) > 1) =>
          \A k \in 1..Len(monthly_projections) :
             monthly_projections[k].filing_status =
                StatusAround(EarliestDeathYear(scenario.people),
                             monthly_projections[k].month)

\* C8 witness: two people with death dates in 2027 and 2026, in that order; the
\* last month, in 2027, is reported single.
C8_Witness ==
    /\ scenario.filing_status = "married_filing_jointly"
    /\ Len(scenario.people) = 2
    /\ death_year_month(scenario.people[1]) = <<2027, 3>>
    /\ death_year_month(scenario.people[2]) = <<2026, 6>>
    /\ Len(monthly_projections) > 0
    /\ YearOf(LastProjection.month) = 2027
    /\ LastProjection.filing_status = "single"

(***************************************************************************)
(* Claims about IncomeProcessor.process_month called directly (SpecIncome).*)
(***************************************************************************)
\* C4: over calls in non-decreasing chronological order, the same month possibly
\* repeated, every change of a stream's current amount is a multiplication by
\* (1 + cola_rate) made in a call whose month number is cola_month, and no
\* calendar year sees two of them.
C4_ColaOncePerYear ==
    \A i \in 1..Len(streams) :
        /\ \A e \in cola_log[i] :
              /\ MonthOf(e.year_month) = streams[i].cola_month
              /\ e.to = RMul(e.from, RAdd(One, streams[i].cola_percent_annual))
        /\ \A e1, e2 \in cola_log[i] :
              YearOf(e1.year_month) = YearOf(e2.year_month) => e1 = e2

\* C4 witness: the call for a COLA month is repeated after that year's COLA was
\* applied, and the amount stays what it was.
C4_Witness ==
    /\ income_call.called
    /\ \E i \in 1..Len(streams) :
          /\ RLt(Zero, streams[i].cola_percent_annual)
          /\ MonthOf(income_call.year_month) = streams[i].cola_month
          /\ InActiveWindow(streams[i], income_call.year_month)
          /\ income_call.before[i].last_cola_year = Some(YearOf(income_call.year_month))
          /\ income_states[i] = income_call.before[i]
          /\ Cardinality(cola_log[i]) = 1

\* C6: a call for a month strictly before start_month or strictly after a defined
\* end_month reports exactly 0 for the stream and leaves its current amount and
\* last-COLA year as they were; a call for start_month or for end_month reports
\* the stream's current amount.
C6_InactiveMonthFrame ==
    income_call.called =>
        \A i \in 1..Len(streams) :
            LET ym == income_call.year_month
                outside ==
                    \/ MonthIndex(ym) < MonthIndex(streams[i].start_month)
                    \/ /\ streams[i].end_month # None
                       /\ MonthIndex(ym) > MonthIndex(streams[i].end_month)
            IN  /\ outside =>
                      /\ income_call.income_by_stream[i] = Zero
                      /\ income_states[i].current_amount =
                            income_call.before[i].current_amount
                      /\ income_states[i].last_cola_year =
                            income_call.before[i].last_cola_year
                /\ (ym = streams[i].start_month \/ ym = streams[i].end_month) =>
                      income_call.income_by_stream[i] = income_states[i].current_amount

\* The stream's end_month, when defined, is not before its start_month.
EndNotBeforeStart(stream) ==
    stream.end_month = None \/ ~month_is_before(stream.end_month, stream.start_month)

\* C6, amended: the statement of C6 for the streams whose end_month, when defined,
\* is not before their start_month.
C6_InactiveMonthFrameOrdered ==
    (\A i \in 1..Len(streams) : EndNotBeforeStart(streams[i])) => C6_InactiveMonthFrame

\* C6 witness: a call after the stream's end_month, in the stream's COLA month of a
\* year whose COLA was not applied: it reports 0 and changes nothing.
C6_Witness ==
    /\ income_call.called
    /\ \E i \in 1..Len(streams) :
          /\ streams[i].end_month # None
          /\ MonthIndex(income_call.year_month) > MonthIndex(streams[i].end_month)
          /\ RLt(Zero, streams[i].cola_percent_annual)
          /\ MonthOf(income_call.year_month) = streams[i].cola_month
          /\ income_call.before[i].last_cola_year # Some(YearOf(income_call.year_month))
          /\ income_call.before[i].current_amount # streams[i].monthly_amount_at_start
          /\ income_call.income_by_stream[i] = Zero
          /\ income_states[i] = income_call.before[i]

TaxInsideBracket(table, k, taxable_income) ==
    LET lower == IF k = 1 THEN Zero ELSE table[k - 1][1]
        upper == table[k][1]
        inside == RMax(Zero, RSub(RMin(taxable_income, upper), lower))
    IN  RMul(table[k][2], inside)

RECURSIVE SumTaxInsideBrackets(_, _, _)
SumTaxInsideBrackets(table, k, taxable_income) ==
    IF k = 0 THEN Zero
    ELSE RAdd(SumTaxInsideBrackets(table, k - 1, taxable_income),
              TaxInsideBracket(table, k, taxable_income))

RECURSIVE SumBreakdown(_)
SumBreakdown(rows) ==
    IF Len(rows) = 0 THEN Zero
    ELSE RAdd(Head(rows).tax_in_bracket, SumBreakdown(Tail(rows)))

\* C10: taxable income is max(0, AGI - deduction), the deduction being the override
\* when given and the filing status's standard deduction otherwise; the federal
\* tax is 0 on a taxable income of 0 and otherwise the sum over the status's
\* brackets of rate times the part of taxable income inside the bracket; the
\* per-bracket taxes of get_tax_bracket_breakdown add up to it.
C10_FederalTaxBrackets ==
    tax_out # <<>> =>
        LET deduction ==
                IF tax_in.standard_deduction_override # None
                THEN tax_in.standard_deduction_override[1]
                ELSE STANDARD_DEDUCTION_2024[tax_in.filing_status]
            table == FEDERAL_TAX_BRACKETS_2024[tax_in.filing_status]
            ti == tax_out.taxable_income
        IN  /\ ti = RMax(Zero, RSub(tax_in.agi, deduction))
            /\ tax_out.federal_tax =
                  IF ti = Zero THEN Zero
                  ELSE SumTaxInsideBrackets(table, Len(table), ti)
            /\ SumBreakdown(tax_out.breakdown) = tax_out.federal_tax

\* C10 witness: a single filer with AGI 64,600 and no override has taxable income
\* 50,000, spread over three brackets, and owes 6,053.
C10_Witness ==
    /\ tax_out # <<>>
    /\ tax_in.filing_status = "single"
    /\ tax_in.standard_deduction_override = None
    /\ tax_out.taxable_income = R(50000)
    /\ Len(tax_out.breakdown) = 3
    /\ tax_out.federal_tax = R(6053)

(***************************************************************************)
(* Claims about the stages of calculate_projection (SpecPipeline).        *)
(***************************************************************************)
\* The records of the year of a tax summary, and the filing status the tax
\* calculation takes for that year: the one of the year's last month.
ProjectionsBehind(summary) == ProjectionsOfYear(monthly_projections, summary.year)

FilingStatusOfYear(summary) ==
    ProjectionsBehind(summary)[Len(ProjectionsBehind(summary))].filing_status

\* C11: the state tax of each year's TaxSummary is 0 for a state without income
\* tax, the bracket walk over the AGI with the bracket table of that year's
\* filing status for a state with progressive brackets, AGI times the state's
\* flat rate for the other known states, and AGI times the default rate for an
\* unknown state.
C11_StateTaxOfFilingStatus ==
    \A k \in 1..Len(tax_summaries) :
        LET summary == tax_summaries[k]
            state == settings.residence_state
        IN  summary.state_tax =
               IF state \in NO_TAX_STATES THEN Zero
               ELSE IF state \in DOMAIN PROGRESSIVE_BRACKETS
               THEN calculate_progressive_tax(
                        summary.agi,
                        PROGRESSIVE_BRACKETS[state][FilingStatusOfYear(summary)])
               ELSE IF state \in DOMAIN FLAT_RATES
               THEN RMul(summary.agi, FLAT_RATES[state])
               ELSE RMul(summary.agi, DefaultStateRate)

\* Sum over the months of a year of the withdrawals from the accounts selected.
RECURSIVE SumWithdrawalsOfAccounts(_, _)
SumWithdrawalsOfAccounts(year_projections, ids) ==
    IF Len(year_projections) = 0 THEN Zero
    ELSE RAdd(RSumOver(Head(year_projections).withdrawals_by_account, ids),
              SumWithdrawalsOfAccounts(Tail(year_projections), ids))

AccountsOfBuckets(buckets) ==
    {i \in 1..Len(accounts) : accounts[i].tax_bucket \in buckets}

\* C12: other_ordinary_income of every year's TaxSummary is the year's income
\* of the streams that are not social security plus the year's withdrawals
\* from taxable and tax_deferred accounts; withdrawals from roth accounts are
\* not counted.
C12_RothWithdrawalsNotCounted ==
    \A k \in 1..Len(tax_summaries) :
        LET summary == tax_summaries[k]
            other_ids == {i \in 1..Len(streams) : streams[i].type # "social_security"}
        IN  summary.other_ordinary_income =
               RAdd(SumIncomeOfStreams(ProjectionsBehind(summary), other_ids),
                    SumWithdrawalsOfAccounts(ProjectionsBehind(summary),
                                             AccountsOfBuckets({"taxable", "tax_deferred"})))

\* The tax summary of the year of a month.
TaxSummaryOfMonth(year_month) ==
    tax_summaries[CHOOSE k \in 1..Len(tax_summaries) :
                     tax_summaries[k].year = YearOf(year_month)]

\* C15: calculate_net_income_projections returns one NetIncomeProjection per
\* input month, in the same order; its estimated federal, state and total tax
\* are the values of that year's TaxSummary divided by 12; the net income is
\* the gross cashflow minus the estimated total tax; the surplus is the net
\* income minus the month's spending.
C15_NetIncomeProjections ==
    (net_income.called /\ ~net_income.raised) =>
        /\ Len(net_income.projections) = Len(monthly_projections)
        /\ \A k \in 1..Len(monthly_projections) :
              LET p == net_income.projections[k]
                  m == monthly_projections[k]
                  summary == TaxSummaryOfMonth(m.month)
              IN  /\ p.month = m.month
                  /\ p.gross_cashflow = m.total_gross_cashflow
                  /\ RMul(p.estimated_federal_tax, R(12)) = summary.federal_tax
                  /\ RMul(p.estimated_state_tax, R(12)) = summary.state_tax
                  /\ RMul(p.estimated_total_tax, R(12)) = summary.total_tax
                  /\ p.net_income_after_tax =
                        RSub(m.total_gross_cashflow, p.estimated_total_tax)
                  /\ p.surplus_deficit =
                        RSub(p.net_income_after_tax, net_income.spending[k])

\* C15 witness: a projection over two calendar years with a tax owed in both,
\* a month with a surplus and a month with a deficit.
C15_Witness ==
    /\ net_income.called /\ ~net_income.raised
    /\ Len(tax_summaries) = 2
    /\ \A k \in 1..2 : RLt(Zero, tax_summaries[k].federal_tax)
    /\ \A k \in 1..2 : RLt(Zero, tax_summaries[k].state_tax)
    /\ tax_summaries[1].total_tax # tax_summaries[2].total_tax
    /\ Len(net_income.projections) = 14
    /\ \E k \in 1..14 : RLt(Zero, net_income.projections[k].surplus_deficit)
    /\ \E k \in 1..14 : RLt(net_income.projections[k].surplus_deficit, Zero)

\* C16: when the list of projections and the list of spending amounts differ
\* in length, calculate_net_income_projections raises and returns nothing; it
\* raises in no other case, so a list is never cut short or padded.
C16_LengthMismatchRaises ==
    net_income.called =>
        /\ net_income.raised <=> Len(net_income.spending) # Len(monthly_projections)
        /\ net_income.raised => net_income.projections = <<>>
        /\ ~net_income.raised =>
              Len(net_income.projections) = Len(monthly_projections)

\* C16 witness: fourteen months and thirteen spending amounts.
C16_Witness ==
    /\ net_income.called
    /\ Len(monthly_projections) = 14
    /\ Len(net_income.spending) = 13
    /\ net_income.raised
    /\ pipe_pc = "failed"

\* The accounts flagged to receive the surplus.
FlaggedAccounts ==
    {i \in 1..Len(accounts) : HasAttr("receives_surplus") /\ accounts[i].receives_surplus}

\* The projection of month k after the running total through month k was added
\* for account a.
WithSurplusAdded(projection, a, total) ==
    [projection EXCEPT
        !.balances_by_account[a] = RAdd(@, total),
        !.total_investments = RAdd(@, total),
        !.balances_by_tax_bucket[accounts[a].tax_bucket] = RAdd(@, total)]

\* C17: apply_surplus_to_accounts adds, for each month, the running total of
\* surplus_deficit through that month to the balance of the account flagged
\* receives_surplus, to total_investments and to that account's tax-bucket
\* balance, and leaves every other field unchanged; when no account is flagged
\* it returns having modified nothing.
C17_SurplusAddedToFlaggedAccount ==
    surplus_pass.called =>
        /\ ~surplus_pass.raised
        /\ Len(monthly_projections) = Len(surplus_pass.before)
        /\ IF FlaggedAccounts = {}
           THEN monthly_projections = surplus_pass.before
           ELSE LET a == CHOOSE i \in FlaggedAccounts : \A j \in FlaggedAccounts : i <= j
                IN  \A k \in 1..Len(monthly_projections) :
                       monthly_projections[k] =
                          WithSurplusAdded(surplus_pass.before[k], a,
                                           cumulative_surplus(net_income.projections, k))

\* C18: in every MonthlyProjection, as ProjectionEngine.run emitted it and as
\* apply_surplus_to_accounts left it, the balances of the accounts add up to
\* total_investments and the balances of the tax buckets add up to
\* total_investments.
C18_BalancesAddUp ==
    \A k \in 1..Len(monthly_projections) :
        LET m == monthly_projections[k]
        IN  /\ RSumOver(m.balances_by_account, DOMAIN m.balances_by_account)
                  = m.total_investments
            /\ RSumOver(m.balances_by_tax_bucket, DOMAIN m.balances_by_tax_bucket)
                  = m.total_investments

\* C18 witness: a taxable and a roth account with growth, the roth one emptied
\* by a withdrawal larger than its balance, and the surplus pass called on the
\* two months of the projection.
C18_Witness ==
    /\ surplus_pass.called
    /\ accounts = GrowingAccountList
    /\ Len(monthly_projections) = 2
    /\ DOMAIN monthly_projections[2].balances_by_tax_bucket = {"taxable", "roth"}
    /\ monthly_projections[2].balances_by_account[2] = Zero
    /\ RLt(R(800), monthly_projections[2].total_investments)
    /\ monthly_projections[2].total_investments # monthly_projections[1].total_investments

\* The positions in monthly_projections of the months of a calendar year.
MonthsOfYear(year) ==
    {k \in 1..Len(monthly_projections) : YearOf(monthly_projections[k].month) = year}

RECURSIVE SumCashflowOver(_)
SumCashflowOver(positions) ==
    IF positions = {} THEN Zero
    ELSE LET k == CHOOSE j \in positions : TRUE
         IN  RAdd(monthly_projections[k].total_gross_cashflow,
                  SumCashflowOver(positions \ {k}))

\* C19: aggregate returns one AnnualSummary per calendar year present in the
\* monthly projections, in ascending order of the year; total_income_year is
\* the sum of the year's monthly total_gross_cashflow and
\* end_of_year_total_investments is total_investments of the year's last month.
C19_AnnualSummaries ==
    pipe_pc = "aggregated" =>
        /\ {annual_summaries[i].year : i \in 1..Len(annual_summaries)}
              = {YearOf(monthly_projections[k].month) : k \in 1..Len(monthly_projections)}
        /\ \A i, j \in 1..Len(annual_summaries) :
              i < j => annual_summaries[i].year < annual_summaries[j].year
        /\ \A i \in 1..Len(annual_summaries) :
              LET summary == annual_summaries[i]
                  positions == MonthsOfYear(summary.year)
                  last == CHOOSE k \in positions : \A j \in positions : j <= k
              IN  /\ summary.total_income_year = SumCashflowOver(positions)
                  /\ summary.end_of_year_total_investments
                        = monthly_projections[last].total_investments

\* C19 witness: a projection of two months of 2026 and twelve of 2027 with
\* investments that fall month after month: two summaries, 2026 then 2027,
\* each with the balance of its December.
C19_Witness ==
    /\ pipe_pc = "aggregated"
    /\ Len(monthly_projections) = 14
    /\ Len(annual_summaries) = 2
    /\ annual_summaries[1].year = 2026
    /\ annual_summaries[2].year = 2027
    /\ annual_summaries[1].end_of_year_total_investments
          = monthly_projections[2].total_investments
    /\ annual_summaries[1].end_of_year_total_investments
          # monthly_projections[1].total_investments
    /\ annual_summaries[2].end_of_year_total_investments
          # monthly_projections[3].total_investments
    /\ RLt(annual_summaries[1].total_income_year, annual_summaries[2].total_income_year)

(***************************************************************************)
(* Claims about BudgetProcessor.process_month (SpecBudget).                *)
(***************************************************************************)
InflationEntries == {e \in budget_log : e.kind = "inflation"}

DeathReached(year_month) ==
    \E k \in 1..Len(budget.people) :
        /\ budget.people[k].life_expectancy_years # None
        /\ ~month_is_before(year_month, death_year_month(budget.people[k]))

\* C14: with at least two people, the call for the first processed month at
\* or after any person's death year-month multiplies each tracked category
\* (mode all) or each tracked flexible category (mode flex_only) by
\* (1 - reduction percent), after the call's inflation step; the call for any
\* earlier or later month, and any call with fewer than two people, applies no
\* reduction.
C14_SurvivorReductionOnce ==
    budget_call.called =>
        LET year_month == budget_call.year_month
            inflated == budget_call.inflated.current_amounts
            after == budget_state.current_amounts
            percent == budget.settings.survivor_flexible_reduction_percent
            first == /\ DeathReached(year_month)
                     /\ \A m \in budget_call.earlier : ~DeathReached(m)
            concerned(i) ==
                \/ budget.settings.survivor_reduction_mode = "all"
                \/ budget.settings.categories[i].category_type = "flexible"
        IN  /\ DOMAIN after = DOMAIN inflated
            /\ IF Len(budget.people) >= 2 /\ first
               THEN \A i \in DOMAIN inflated :
                       after[i] = IF concerned(i)
                                  THEN RMul(inflated[i], RSub(One, percent))
                                  ELSE inflated[i]
               ELSE after = inflated

\* C14 witness: a couple, one of them dying in 2026-06, flex_only with 25%:
\* 2026-12 is the first processed month after the death, Travel drops from 400
\* to 300 and Groceries stay at 800; a later call for 2027-03 reduces nothing.
C14_Witness ==
    /\ budget_call.called
    /\ Len(budget.people) = 2
    /\ budget.settings.survivor_reduction_mode = "flex_only"
    /\ budget.settings.survivor_flexible_reduction_percent = Rat(25, 100)
    /\ budget.settings.inflation_annual_percent = Zero
    /\ Len(budget.settings.categories) = 3
    /\ budget_call.year_month = <<2027, 3>>
    /\ budget_call.earlier = {<<2026, 1>>, <<2026, 12>>}
    /\ [kind |-> "survivor_reduction", year_month |-> <<2026, 12>>,
        from |-> (1 :> R(400)) @@ (3 :> R(800)),
        to |-> (1 :> R(300)) @@ (3 :> R(800))] \in budget_log
    /\ budget_state.current_amounts = (1 :> R(300)) @@ (3 :> R(800))

(***************************************************************************)
(* Claims about identify_deficit_periods (SpecDeficit).                    *)
(***************************************************************************)
Series == deficit_in.net_income_projections

IsDeficit(k) == RLt(Series[k].surplus_deficit, Zero)

\* The maximal runs of consecutive deficit months, as pairs of positions.
MaximalRuns ==
    {r \in (1..Len(Series)) \X (1..Len(Series)) :
        /\ r[1] <= r[2]
        /\ \A k \in r[1]..r[2] : IsDeficit(k)
        /\ r[1] = 1 \/ ~IsDeficit(r[1] - 1)
        /\ r[2] = Len(Series) \/ ~IsDeficit(r[2] + 1)}

QualifyingRuns ==
    {r \in MaximalRuns : r[2] - r[1] + 1 >= deficit_in.consecutive_months}

RECURSIVE SumDeficits(_, _)
SumDeficits(from, to) ==
    IF from > to THEN Zero
    ELSE RAdd(Series[from].surplus_deficit, SumDeficits(from + 1, to))

PeriodOfRun(r) ==
    [start_month |-> Series[r[1]].month, end_month |-> Series[r[2]].month,
     months |-> r[2] - r[1] + 1, total_deficit |-> SumDeficits(r[1], r[2])]

\* C20: identify_deficit_periods reports exactly the maximal runs of
\* consecutive months with a negative surplus_deficit whose length is at
\* least the minimum, in chronological order, each with its first month, last
\* month, month count and the sum of its deficits; a shorter run is not
\* reported and a qualifying run that reaches the last month is reported.
C20_DeficitPeriods ==
    deficit_out # <<>> =>
        LET periods == deficit_out[1]
        IN  /\ Len(periods) = Cardinality(QualifyingRuns)
            /\ {periods[i] : i \in 1..Len(periods)}
                  = {PeriodOfRun(r) : r \in QualifyingRuns}
            /\ \A i, j \in 1..Len(periods) :
                  i < j => month_is_before(periods[i].end_month, periods[j].start_month)

\* C20 witness: deficits in 2026-11 and in 2027-01..2027-02 with a minimum of
\* two: the one-month run is left out and the run that ends the series is
\* reported with its total of -250.
C20_Witness ==
    /\ deficit_out # <<>>
    /\ deficit_in.consecutive_months = 2
    /\ Len(Series) = 4
    /\ IsDeficit(1) /\ ~IsDeficit(2)
    /\ deficit_out[1] = <<[start_month |-> <<2027, 1>>, end_month |-> <<2027, 2>>,
                           months |-> 2, total_deficit |-> R(-250)]>>

(***************************************************************************)
(* Claims about Timeline (SpecTimelineLive).                               *)
(***************************************************************************)
\* The k-th calendar month counted from a month (k = 0: the month itself).
MonthAfter(year_month, k) ==
    LET index == YearOf(year_month) * 12 + (MonthOf(year_month) - 1) + k
    IN  <<index \div 12, (index % 12) + 1>>

\* The number of months from the start month through December of end_year.
MonthsThroughEndYear ==
    LET n == (timeline.end_year * 12 + 12)
                - (YearOf(timeline.start_month) * 12 + (MonthOf(timeline.start_month) - 1))
    IN  IF n > 0 THEN n ELSE 0

ExpectedMonths ==
    [k \in 1..MonthsThroughEndYear |->
        <<MonthAfter(timeline.start_month, k - 1),
          MonthOf(MonthAfter(timeline.start_month, k - 1))>>]

\* What a generator has yielded is the beginning of the expected sequence, every
\* exhausted generator has yielded all of it, and total_months is its length.
C21_MonthsYielded ==
    /\ Len(tl_yielded) <= MonthsThroughEndYear
    /\ \A k \in 1..Len(tl_yielded) : tl_yielded[k] = ExpectedMonths[k]
    /\ \A i \in 1..Len(tl_passes) : tl_passes[i] = ExpectedMonths
    /\ tl_total # None => tl_total[1] = MonthsThroughEndYear

\* C21: months() yields exactly the consecutive calendar months from the start
\* month through December of end_year, each with its month number, one month
\* apart; every iteration terminates; total_months is the number of months
\* yielded; a second iteration yields the same sequence.
C21_TimelineMonths ==
    /\ []C21_MonthsYielded
    /\ (tl_pc = "iterating") ~> (tl_pc = "idle")

\* C21 witness: a timeline from 2027-11 through 2028 iterated twice, fourteen
\* months each time, crossing a year end, and total_months() = 14.
C21_Witness ==
    /\ timeline = [start_month |-> <<2027, 11>>, end_year |-> 2028]
    /\ Len(tl_passes) = 2
    /\ tl_passes[1] = tl_passes[2]
    /\ Len(tl_passes[2]) = 14
    /\ tl_passes[2][2] = <<<<2027, 12>>, 12>>
    /\ tl_passes[2][3] = <<<<2028, 1>>, 1>>
    /\ tl_total = Some(14)

(***************************************************************************)
(* Claims about repeated ProjectionEngine.run calls (SpecRerun).           *)
(***************************************************************************)
\* C22: every run() on the same scenario returns the same list of
\* MonthlyProjection, whether the engine was newly built or had already
\* completed a run.
C22_RunsIdentical ==
    run_pc = "done" =>
        \A i \in 1..Len(run_returned) : run_returned[i].result = monthly_projections

\* The part of C22 about newly built engines: their first runs agree.
C22_FreshEnginesAgree ==
    (run_pc = "done" /\ engine_runs = 0) =>
        \A i \in 1..Len(run_returned) :
            run_returned[i].engine_runs = 0 => run_returned[i].result = monthly_projections

(***************************************************************************)
(* Claims about interleaved runs (SpecInterleaved).                        *)
(***************************************************************************)
\* What a run produces alone: the whole loop of ProjectionEngine.run.
RECURSIVE AloneProjections(_, _, _, _)
AloneProjections(inp, inc, bal, cur) ==
    IF timeline_continues(cur, inp.scenario.projection_end_year)
    THEN LET it == run_iteration(inp.scenario, inp.streams, inc, inp.accounts, bal,
                                 cur, MonthOf(cur))
         IN  <<it.projection>>
             \o AloneProjections(inp, it.income_states, it.balance, next_month(cur))
    ELSE <<>>

AloneRun(inp) ==
    LET first == NewRun(inp)
        projections == AloneProjections(inp, first.income_states, first.balance,
                                        first.current)
    IN  [projections |-> projections,
         tax_summaries |->
             calculate_taxes_for_projection(projections, inp.streams,
                                            inp.scenario.filing_status,
                                            inp.settings.residence_state,
                                            inp.settings.standard_deduction_override),
         spending |->
             budget_spending_loop(inp.settings.budget_settings, inp.scenario.people,
                                  BudgetStateInit(inp.settings.budget_settings),
                                  projections)]

DegenerateDivisor ==
    CASE degenerate_in.routine = "calculate_portfolio_growth" ->
            /\ Len(degenerate_in.monthly_projections) > 0
            /\ degenerate_in.monthly_projections[1].total_investments = Zero
      [] degenerate_in.routine = "calculate_effective_tax_rate" ->
            RLe(degenerate_in.agi, Zero)
      [] OTHER -> degenerate_in.months_in_year = 0

\* The value the claim expects for a degenerate divisor.
ZeroResult ==
    CASE degenerate_in.routine = "calculate_portfolio_growth" ->
            degenerate_out.value.growth_percentage = Zero
      [] degenerate_in.routine = "estimate_monthly_taxes" ->
            degenerate_out.value = <<Zero, Zero>>
      [] OTHER -> degenerate_out.value = Zero

\* C24: no dividing routine raises, and each returns 0 when its divisor is
\* zero: the growth percentage for a starting balance of zero, the effective
\* rate for an AGI of zero or less, and the monthly estimates of
\* estimate_monthly_federal_tax, estimate_monthly_state_tax and
\* TaxCalculator.estimate_monthly_taxes for zero months.
C24_ZeroDivisorReturnsZero ==
    degenerate_out # <<>> =>
        /\ ~degenerate_out.raised
        /\ DegenerateDivisor => ZeroResult

\* The same for the routines other than TaxCalculator.estimate_monthly_taxes.
C24_GuardedRoutines ==
    (degenerate_out # <<>> /\ degenerate_in.routine # "estimate_monthly_taxes") =>
        /\ ~degenerate_out.raised
        /\ DegenerateDivisor => ZeroResult


\* The included categories whose end_month lies before year_month.
EndedCategories(year_month) ==
    {i \in DOMAIN budget_state.current_amounts :
        /\ budget.settings.categories[i].end_month # None
        /\ month_is_after(year_month, budget.settings.categories[i].end_month[1])}

\* C25: for every month after a category's end_month, the total monthly
\* spending returned by BudgetProcessor.process_month does not include that
\* category's amount: it is the sum of the amounts of the categories that
\* have not ended.
C25_EndedCategoryNotSpent ==
    budget_call.called =>
        budget_call.spending =
            RSumOver(budget_state.current_amounts,
                     DOMAIN budget_state.current_amounts
                         \ EndedCategories(budget_call.year_month))


\* The sum of the configured monthly amounts of the included categories.
ConfiguredSpending ==
    LET categories == budget.settings.categories
    IN  RSumOver([i \in 1..Len(categories) |-> categories[i].monthly_amount],
                 {i \in 1..Len(categories) : categories[i].include})

\* C26: when the first month processed is a January, the inflation rate is
\* positive and no survivor reduction has been applied, the spending of
\* that first month is the sum of the configured amounts of the included
\* categories (3,300 for 2,000 + 800 + 500 at 3%).
C26_FirstJanuaryAtConfiguredAmounts ==
    (/\ budget_call.called
     /\ budget_call.earlier = {}
     /\ MonthOf(budget_call.year_month) = 1
     /\ RLt(Zero, budget.settings.inflation_annual_percent)
     /\ ~budget_state.survivor_reduction_applied)
        => budget_call.spending = ConfiguredSpending

\* The first month of the test's budget costs 3,399.
C26_FirstJanuaryInflated ==
    (/\ budget.settings = SimpleRetirementBudget
     /\ budget_call.called
     /\ budget_call.earlier = {}
     /\ MonthOf(budget_call.year_month) = 1)
        => budget_call.spending = R(3399)


(***************************************************************************)
(* Claims about the API's scenario store (SpecApi).                        *)
(***************************************************************************)
\* Some user's create-scenario request has stored a scenario with this id.
ScenarioStored(scenario_id) ==
    \E u \in DOMAIN scenarios_db : scenario_id \in DOMAIN scenarios_db[u]

\* The projection endpoint has just answered.
ProjectionAnswered ==
    /\ api_response'.n = api_response.n + 1
    /\ api_response'.endpoint = "calculate_projection"

\* C27: a request to the projection endpoint for the id of a scenario stored
\* by the create-scenario endpoint is answered 200 with that scenario id, and
\* only an id that was never stored is answered 404.
C27_StoredScenarioProjected ==
    [][ProjectionAnswered =>
          IF ScenarioStored(api_response'.scenario_id)
          THEN /\ api_response'.status = 200
               /\ api_response'.body = Some([scenario_id |-> api_response'.scenario_id])
          ELSE api_response'.status = 404]_vars

\* What the endpoint answers instead: 404 unless the id is the address of a
\* user who has made a request, and then 500.
C27_ProjectionNeverFound ==
    [][ProjectionAnswered =>
          api_response'.status =
              IF api_response'.scenario_id \in DOMAIN scenarios_db THEN 500 ELSE 404]_vars


(***************************************************************************)
(* Claims about calculate_taxes_from_monthly_projections (SpecInterleaved).*)
(***************************************************************************)
\* The last MonthlyProjection of a year in a list.
LastProjectionOfYear(projections, year) ==
    LET of_year == {k \in 1..Len(projections) : YearOf(projections[k].month) = year}
    IN  projections[CHOOSE k \in of_year : \A j \in of_year : j <= k]

\* The year's sums taxed by a calculator whose filing status is the year's.
TaxedWithStatus(self, year, filing_status) ==
    LET of_year == ProjectionsOfYear(self.projections, year)
        ssa_stream_ids == {i \in 1..Len(self.input.streams) :
                               self.input.streams[i].type = "social_security"}
        other_ids == (1..Len(self.input.streams)) \ ssa_stream_ids
        calc == TaxCalculatorInit(filing_status, self.input.settings.residence_state,
                                  self.input.settings.standard_deduction_override)
        tax_summary ==
            calculate_annual_taxes(calc, SumIncomeOfStreams(of_year, ssa_stream_ids),
                                   RAdd(SumIncomeOfStreams(of_year, other_ids),
                                        SumAllWithdrawals(of_year)), Zero)
    IN  [tax_summary EXCEPT !.year = year]

\* The years in the projections of a run, ascending.
RunYears(self) ==
    LET first == YearOf(self.input.scenario.projection_start_month)
    IN  [k \in 1..(self.input.scenario.projection_end_year - first + 1) |-> first + k - 1]

\* C28: calculate_taxes_from_monthly_projections appends one TaxSummary per
\* calendar year in ascending order, each computed with the filing status of
\* the year's last MonthlyProjection, and at every return of the loop body,
\* hence when the call returns, the calculator's filing_status is the one it
\* had before the call.
C28_YearlyTaxesWithYearStatus ==
    runs # <<>> =>
        \A r \in RunIds :
            /\ runs[r].calculator.filing_status = runs[r].input.scenario.filing_status
            /\ Len(runs[r].tax_summaries) <= Len(RunYears(runs[r]))
            /\ runs[r].pc \in {"budget", "done"} =>
                  Len(runs[r].tax_summaries) = Len(RunYears(runs[r]))
            /\ \A k \in 1..Len(runs[r].tax_summaries) :
                  runs[r].tax_summaries[k] =
                      TaxedWithStatus(runs[r], RunYears(runs[r])[k],
                          LastProjectionOfYear(runs[r].projections,
                                               RunYears(runs[r])[k]).filing_status)

\* C28 witness: a run of the couple with a death in 2026 has returned from the
\* tax calculation: 2026 was taxed as married_filing_jointly, 2027 as single,
\* and the calculator is married_filing_jointly as before the call.
C28_Witness ==
    /\ runs # <<>>
    /\ runs[1].pc = "budget"
    /\ runs[1].input.scenario.people = Widowed
    /\ Len(runs[1].tax_summaries) = 2
    /\ LastProjectionOfYear(runs[1].projections, 2026).filing_status
          = "married_filing_jointly"
    /\ LastProjectionOfYear(runs[1].projections, 2027).filing_status = "single"
    /\ runs[1].tax_summaries[1].standard_deduction
          # runs[1].tax_summaries[2].standard_deduction
    /\ runs[1].calculator.filing_status = "married_filing_jointly"


(***************************************************************************)
(* Further claims about the stages after engine.run() (SpecPipeline).      *)
(***************************************************************************)
\* No balance of a MonthlyProjection is negative.
NonNegativeBalances(projection) ==
    /\ \A a \in DOMAIN projection.balances_by_account :
          RLe(Zero, projection.balances_by_account[a])
    /\ \A b \in DOMAIN projection.balances_by_tax_bucket :
          RLe(Zero, projection.balances_by_tax_bucket[b])
    /\ RLe(Zero, projection.total_investments)

EstimatedTaxOfYear(year) ==
    RSumOver([k \in 1..Len(net_income.projections) |->
                 net_income.projections[k].estimated_total_tax],
             {k \in 1..Len(net_income.projections) :
                 YearOf(net_income.projections[k].month) = year})

\* The sum of total_tax over all TaxSummaries.
TotalTaxOfSummaries ==
    RSumSeq([k \in 1..Len(tax_summaries) |-> tax_summaries[k].total_tax])

\* C30: for every calendar year of the projection, a first year that starts
\* after January included, the estimated_total_tax of the year's
\* NetIncomeProjections add up to the year's TaxSummary.total_tax, and the
\* total_taxes of get_financial_summary is the sum of total_tax over all
\* TaxSummaries.
C30_EstimatesAddUpToAnnualTax ==
    (net_income.called /\ ~net_income.raised) =>
        /\ \A k \in 1..Len(tax_summaries) :
              EstimatedTaxOfYear(tax_summaries[k].year) = tax_summaries[k].total_tax
        /\ (financial_summary # None /\ financial_summary # Some(<<>>)) =>
              financial_summary[1].total_taxes = TotalTaxOfSummaries

\* The same, for the years of which the projection covers all twelve months.
C30_FullYearsAddUp ==
    (net_income.called /\ ~net_income.raised) =>
        \A k \in 1..Len(tax_summaries) :
            Len(ProjectionsOfYear(net_income.projections, tax_summaries[k].year)) = 12
                => EstimatedTaxOfYear(tax_summaries[k].year) = tax_summaries[k].total_tax

=============================================================================
